---------------------------- MODULE Spec2Model ----------------------------
(***************************************************************************)
(* Model of the Go language plugin of desloppify: the smell detector, the  *)
(* five auto-fixers with their shared apply_fixer file loop, the           *)
(* dependency graph builder and the function extractor.                    *)
(*                                                                         *)
(* Text representation.  A file is a sequence of lines and a line is a     *)
(* sequence of lexical tokens (TLA+ strings).  Leading indentation is one  *)
(* "\t" token per tab; between two other tokens a single blank is implied  *)
(* wherever the Go source would have one.  A string literal is an opening  *)
(* quote token, one token for its first word (so that the first letter's   *)
(* case is visible), the chunks of the rest, and a closing quote token.    *)
(* The Python regular expressions are translated to predicates over token  *)
(* positions; line numbers are 1-based as in the entries the code builds.  *)
(* Files are taken to end with a newline, so Python's splitlines / join    *)
(* pair is the list of lines itself, except for the empty string "" that   *)
(* fix_regex_hoist uses as a deletion marker (NoText below).               *)
(***************************************************************************)
EXTENDS Integers, Sequences, FiniteSets, TLC

(* ------------------------------ bounds -------------------------------- *)

\* lines of a two-file project, drawn exhaustively from a fixer's alphabet
MaxLines == 2

\* lines of a one-file project, drawn exhaustively from a fixer's alphabet
MaxBody == 4

\* number of fix calls in one behaviour
MaxRuns == 2

\* number of I/O faults the environment injects in one behaviour
MaxFaults == 1

\* the import paths the files of a scanned tree declare, all together
MaxImports == 2

\* the unreadable files of a scanned tree
MaxLocked == 1

\* the parameters of a function declaration
MaxParams == 3

(* --------------------------- token helpers ---------------------------- *)

Tab == "\t"
DQ  == "\""
\* the backtick character (the lexer of TLA+ has no literal for it)
BQ  == "<backtick>"
Esc == "\\\""

\* "" as a list element in Python (a line with no text, not even a newline)
NoText == <<"<empty-str>">>

\* tokens matching \w+ entirely (identifiers and keywords of the alphabets)
Words == {"func", "Load", "error", "if", "err", "nil", "return", "else",
          "for", "cond", "re", "use", "s", "n", "x", "y", "o", "f", "sb",
          "mu", "a", "b", "name", "string", "count", "int", "var",
          "withLock", "alreadyPointer", "multiParam", "both", "bare",
          "operation", "1", "_", "doSomething", "fn", "range", "items"}

\* first words of string literals that start with a capital letter [A-Z]
UpperInitial == {"Invalid", "Failed", "Bad", "Load"}

\* str.lower() of the first character of such a word
lower(w) == CASE w = "Invalid" -> "invalid"
              [] w = "Failed"  -> "failed"
              [] w = "Bad"     -> "bad"
              [] w = "Load"    -> "load"
              [] OTHER         -> w

Min(S) == CHOOSE m \in S : \A y \in S : m <= y

Range(sq) == {sq[i] : i \in DOMAIN sq}

RECURSIVE lstrip(_)
lstrip(l) == IF l # <<>> /\ Head(l) = Tab THEN lstrip(Tail(l)) ELSE l

\* str.strip(): the alphabets have no trailing blanks
strip(l) == lstrip(l)

\* the leading whitespace: line[:len(line) - len(line.lstrip())]
indent_of(l) == SubSeq(l, 1, Len(l) - Len(lstrip(l)))

IsPrefix(p, l) == Len(p) <= Len(l) /\ SubSeq(l, 1, Len(p)) = p

\* the tokens p occur in l starting at position i
OccursAt(p, l, i) == i + Len(p) - 1 <= Len(l) /\ SubSeq(l, i, i + Len(p) - 1) = p

Count(l, t) == Cardinality({i \in DOMAIN l : l[i] = t})

InsertAt(sq, i, e) == SubSeq(sq, 1, i - 1) \o <<e>> \o SubSeq(sq, i, Len(sq))

RECURSIVE SeqFilter(_, _)
SeqFilter(sq, keep) ==
    IF sq = <<>> THEN <<>>
    ELSE IF Head(sq) \in keep THEN <<Head(sq)>> \o SeqFilter(Tail(sq), keep)
    ELSE SeqFilter(Tail(sq), keep)

(* ----------------------- detectors/smells.py -------------------------- *)

\* matches[:50]: the number of sample matches an entry keeps
SampleCap == 50

\* _build_string_line_set: the lines that lie inside a multi-line raw string.
\* scan_opens_raw scans one line outside a raw string and tells whether it
\* ends inside a backtick literal that is not closed on that line.
RECURSIVE skip_dq(_, _)
skip_dq(l, pos) ==
    IF pos > Len(l) THEN pos
    ELSE IF l[pos] = Esc THEN skip_dq(l, pos + 1)
    ELSE IF l[pos] = DQ THEN pos + 1
    ELSE skip_dq(l, pos + 1)

RECURSIVE scan_opens_raw(_, _)
scan_opens_raw(l, pos) ==
    IF pos > Len(l) THEN FALSE
    ELSE IF l[pos] = DQ THEN scan_opens_raw(l, skip_dq(l, pos + 1))
    ELSE IF l[pos] = "//" THEN FALSE
    ELSE IF l[pos] = BQ THEN
        LET closes == {k \in (pos + 1)..Len(l) : l[k] = BQ}
        IN  IF closes = {} THEN TRUE ELSE scan_opens_raw(l, Min(closes) + 1)
    ELSE scan_opens_raw(l, pos + 1)

RECURSIVE string_lines_from(_, _, _)
string_lines_from(lines, i, in_raw_string) ==
    IF i > Len(lines) THEN {}
    ELSE IF in_raw_string
         THEN {i} \cup string_lines_from(lines, i + 1, BQ \notin Range(lines[i]))
         ELSE string_lines_from(lines, i + 1, scan_opens_raw(lines[i], 1))

build_string_line_set(lines) == string_lines_from(lines, 1, FALSE)

\* _match_is_in_string(line, match_start): st is None ("none"), '"' or '`'
RECURSIVE mis_scan(_, _, _, _)
mis_scan(l, match_start, i, st) ==
    IF i > Len(l) THEN st # "none"
    ELSE IF i = match_start THEN st # "none"
    ELSE IF st = "none" THEN
             IF l[i] = "//" THEN match_start > i
             ELSE IF l[i] = DQ THEN mis_scan(l, match_start, i + 1, DQ)
             ELSE IF l[i] = BQ THEN mis_scan(l, match_start, i + 1, BQ)
             ELSE mis_scan(l, match_start, i + 1, "none")
    ELSE IF st = DQ THEN
             IF l[i] = Esc THEN mis_scan(l, match_start, i + 1, DQ)
             ELSE IF l[i] = DQ THEN mis_scan(l, match_start, i + 1, "none")
             ELSE mis_scan(l, match_start, i + 1, DQ)
    ELSE IF l[i] = BQ THEN mis_scan(l, match_start, i + 1, "none")
    ELSE mis_scan(l, match_start, i + 1, BQ)

match_is_in_string(l, match_start) == mis_scan(l, match_start, 1, "none")

\* SMELL_CHECKS patterns.  Each operator gives the positions at which the
\* pattern matches; re.search takes the leftmost one.

\* bare_error_return: ^\s*return\s+err\s*$
BareReturnTokens == <<"return", "err">>
bare_error_return_at(l) == IF lstrip(l) = BareReturnTokens THEN {1} ELSE {}

\* error_string_format: (?:errors\.New|fmt\.Errorf)\s*\(\s*"[A-Z]
ErrorCtors == {"errors.New", "fmt.Errorf"}
error_string_format_at(l) ==
    {i \in 1..(Len(l) - 3) :
        /\ l[i] \in ErrorCtors
        /\ l[i + 1] = "("
        /\ l[i + 2] = DQ
        /\ l[i + 3] \in UpperInitial}

\* a mutex_copy pattern that matches by-value parameters only
mutex_copy_by_value_at(l) ==
    {i \in 1..(Len(l) - 3) :
        /\ l[i] = "func"
        /\ l[i + 1] \in Words
        /\ l[i + 2] = "("
        /\ \E j \in (i + 3)..Len(l) :
              /\ l[j] = "sync.Mutex"
              /\ l[j - 1] # "*"
              /\ \A k \in (i + 3)..(j - 1) : l[k] # ")"}

\* mutex_copy: func\s+\w+\([^)]*\bsync\.Mutex\b
mutex_copy_at(l) ==
    {i \in 1..(Len(l) - 3) :
        /\ l[i] = "func"
        /\ l[i + 1] \in Words
        /\ l[i + 2] = "("
        /\ \E j \in (i + 3)..Len(l) :
              /\ l[j] = "sync.Mutex"
              /\ \A k \in (i + 3)..(j - 1) : l[k] # ")"}

\* an ignored_error pattern that asks for no call after the assignment
ignored_error_at_without_call(l) ==
    {i \in 1..Len(l) :
        /\ l[i] = "_"
        /\ \E e \in {i + 1, i + 3} :
              /\ e = i + 3 => (e <= Len(l) /\ l[i + 1] = "," /\ l[i + 2] = "_")
              /\ e + 1 <= Len(l)
              /\ l[e] = "="
              /\ l[e + 1] \in Words}

\* ignored_error: _\s*(?:,\s*_\s*)?=\s*\w+.*\(
ignored_error_at(l) ==
    {i \in 1..Len(l) :
        /\ l[i] = "_"
        /\ \E e \in {i + 1, i + 3} :
              /\ e = i + 3 => (e <= Len(l) /\ l[i + 1] = "," /\ l[i + 2] = "_")
              /\ e + 1 <= Len(l)
              /\ l[e] = "="
              /\ l[e + 1] \in Words
              /\ \E j \in (e + 2)..Len(l) : l[j] = "("}

\* (?<!\w)panic\s*\( : the word panic with a "(" after it
panic_at(l) == {i \in 1..(Len(l) - 1) : l[i] = "panic" /\ l[i + 1] = "("}

\* the pattern checks the fixers use, ignored_error and panic_in_lib, by smell id
pattern_at(id, l) ==
    CASE id = "bare_error_return"   -> bare_error_return_at(l)
      [] id = "error_string_format" -> error_string_format_at(l)
      [] id = "mutex_copy"          -> mutex_copy_at(l)
      [] id = "ignored_error"       -> ignored_error_at(l)
      [] id = "panic_in_lib"        -> panic_at(l)
      [] OTHER                      -> {}

\* lines 334-337: a line that starts with import or var is no ignored_error
blank_declaration(id, l) ==
    /\ id = "ignored_error"
    /\ strip(l) # <<>>
    /\ Head(strip(l)) \in {"import", "var"}

\* one iteration of the per-line loop of detect_smells (lines 326-342)
pattern_flags(id, lines, string_lines, i) ==
    /\ i \notin string_lines
    /\ pattern_at(id, lines[i]) # {}
    /\ ~match_is_in_string(lines[i], Min(pattern_at(id, lines[i])))
    /\ ~blank_declaration(id, lines[i])

\* _detect_empty_error_check
IfErrTokens == <<"if", "err", "!=", "nil", "{">>
SingleLineCheckTokens == <<"if", "err", "!=", "nil", "{", "return", "err", "}">>

IsBlank(l) == strip(l) = <<>>

RECURSIVE next_non_blank(_, _)
next_non_blank(lines, j) ==
    IF j <= Len(lines) /\ IsBlank(lines[j]) THEN next_non_blank(lines, j + 1) ELSE j

empty_error_check_flags(lines, i) ==
    LET stripped == strip(lines[i])
        j == next_non_blank(lines, i + 1)
        k == next_non_blank(lines, j + 1)
    IN  \/ \E p \in 1..Len(stripped) : OccursAt(SingleLineCheckTokens, stripped, p)
        \/ /\ IsPrefix(IfErrTokens, stripped)
           /\ j <= Len(lines)
           /\ lstrip(lines[j]) = BareReturnTokens
           /\ k <= Len(lines)
           /\ strip(lines[k]) = <<"}">>

detect_empty_error_check(lines) ==
    SeqFilter([i \in 1..Len(lines) |-> i],
              {i \in 1..Len(lines) : empty_error_check_flags(lines, i)})

\* _detect_loop_smells
\* for_re = ^\s*for\s+ applied to a line without its newline
for_re_match(l) == LET t == lstrip(l) IN Len(t) >= 2 /\ t[1] = "for"

\* concat_re = \w+\s*\+=\s*
concat_re_search(l) == \E i \in 1..(Len(l) - 1) : l[i] \in Words /\ l[i + 1] = "+="

\* regexp_re = regexp\.(?:Compile|MustCompile)\s*\(
RegexpCtors == {"regexp.Compile", "regexp.MustCompile"}
regexp_re_search(l) == \E i \in 1..(Len(l) - 1) : l[i] \in RegexpCtors /\ l[i + 1] = "("

\* the while loop that tracks brace depth from the for line (lines 248-263);
\* the result is loop_end, Len(lines) + 1 when the braces never balance
RECURSIVE find_loop_end(_, _, _, _, _)
find_loop_end(lines, string_lines, j, brace_depth, found_open) ==
    IF j > Len(lines) THEN j
    ELSE IF j \in string_lines
         THEN find_loop_end(lines, string_lines, j + 1, brace_depth, found_open)
    ELSE LET d == brace_depth + Count(lines[j], "{") - Count(lines[j], "}")
             fo == found_open \/ Count(lines[j], "{") > 0
         IN  IF fo /\ d <= 0 THEN j
             ELSE find_loop_end(lines, string_lines, j + 1, d, fo)

loop_smell_hit(smell, l) ==
    CASE smell = "string_concat_loop" -> concat_re_search(strip(l))
      [] smell = "regex_in_loop"      -> regexp_re_search(strip(l))
      [] OTHER                        -> FALSE

RECURSIVE detect_loop_smells_from(_, _, _, _)
detect_loop_smells_from(smell, lines, string_lines, i) ==
    IF i > Len(lines) THEN <<>>
    ELSE IF i \in string_lines \/ ~for_re_match(lines[i])
         THEN detect_loop_smells_from(smell, lines, string_lines, i + 1)
    ELSE LET loop_end == find_loop_end(lines, string_lines, i, 0, FALSE)
             last == IF loop_end < Len(lines) THEN loop_end ELSE Len(lines)
             body == {k \in (i + 1)..last :
                         k \notin string_lines /\ loop_smell_hit(smell, lines[k])}
         IN  SeqFilter([k \in 1..Len(lines) |-> k], body)
                 \o detect_loop_smells_from(smell, lines, string_lines, loop_end + 1)

detect_loop_smells(smell, lines) ==
    detect_loop_smells_from(smell, lines, build_string_line_set(lines), 1)

\* the line numbers smell_counts[id] receives for one file, in order
file_smell_lines(id, lines) ==
    CASE id \in {"bare_error_return", "error_string_format", "mutex_copy",
                 "ignored_error", "panic_in_lib"} ->
            SeqFilter([i \in 1..Len(lines) |-> i],
                      {i \in 1..Len(lines) :
                          pattern_flags(id, lines, build_string_line_set(lines), i)})
      [] id = "empty_error_check" -> detect_empty_error_check(lines)
      [] OTHER -> detect_loop_smells(id, lines)


(* -------------------------- fixers/common.py --------------------------- *)

\* Python's None where a list of records is expected: a value that is no
\* list the code can build
None == <<[none |-> TRUE]>>

\* no enclosing function / no enclosing loop (Python's None)
NoName == "<none>"
NoLine == 0

\* _FUNC_RE = ^func\s+(?:\([^)]*\)\s+)?(\w+)\s*\(   -- group(1), or NoName
func_re_name(l) ==
    IF Len(l) >= 3 /\ l[1] = "func" /\ l[2] \in Words /\ l[3] = "(" THEN l[2]
    ELSE IF Len(l) >= 2 /\ l[1] = "func" /\ l[2] = "("
         THEN LET cl == {c \in 3..Len(l) : l[c] = ")"}
              IN  IF cl # {} /\ Min(cl) + 2 <= Len(l)
                            /\ l[Min(cl) + 1] \in Words /\ l[Min(cl) + 2] = "("
                  THEN l[Min(cl) + 1] ELSE NoName
    ELSE NoName

RECURSIVE find_enclosing_func(_, _)
find_enclosing_func(lines, i) ==
    IF i < 1 THEN NoName
    ELSE IF func_re_name(lines[i]) # NoName THEN func_re_name(lines[i])
    ELSE find_enclosing_func(lines, i - 1)

\* _FOR_RE = ^\s*for\s+ applied to a line that keeps its newline
FOR_RE_match(l) == LET t == lstrip(l) IN Len(t) >= 1 /\ t[1] = "for"

RECURSIVE find_enclosing_for_from(_, _, _)
find_enclosing_for_from(lines, i, brace_depth) ==
    IF i < 1 THEN NoLine
    ELSE LET d == brace_depth + Count(lines[i], "}") - Count(lines[i], "{")
         IN  IF FOR_RE_match(lines[i]) /\ d = -1 THEN i
             ELSE IF d < 0 THEN NoLine
             ELSE find_enclosing_for_from(lines, i - 1, d)

find_enclosing_for(lines, line_idx) == find_enclosing_for_from(lines, line_idx, 0)

(* ----------------------- fixers/mutex_pointer.py ----------------------- *)

\* "*sync.Mutex" in line
has_pointer_mutex(l) == \E k \in 1..(Len(l) - 1) : l[k] = "*" /\ l[k + 1] = "sync.Mutex"

\* _MUTEX_VALUE_RE.sub(r'\1 *sync.Mutex', line), (\w+)\s+sync\.Mutex\b
RECURSIVE MUTEX_VALUE_RE_sub(_)
MUTEX_VALUE_RE_sub(l) ==
    IF Len(l) < 2 THEN l
    ELSE IF l[1] \in Words /\ l[2] = "sync.Mutex"
         THEN <<l[1], "*", "sync.Mutex">> \o MUTEX_VALUE_RE_sub(SubSeq(l, 3, Len(l)))
    ELSE <<l[1]>> \o MUTEX_VALUE_RE_sub(Tail(l))

mutex_fixes_line(lines, entry_lines, i) ==
    /\ i \in entry_lines
    /\ ~has_pointer_mutex(lines[i])
    /\ MUTEX_VALUE_RE_sub(lines[i]) # lines[i]

fix_mutex_pointer_transform(lines, entry_seq) ==
    LET entry_lines == Range(entry_seq)
        hit == {i \in 1..Len(lines) : mutex_fixes_line(lines, entry_lines, i)}
    IN  [lines   |-> [i \in 1..Len(lines) |->
                        IF i \in hit THEN MUTEX_VALUE_RE_sub(lines[i]) ELSE lines[i]],
         removed |-> SeqFilter([i \in 1..Len(lines) |-> i], hit)]

(* ----------------------- fixers/error_strings.py ----------------------- *)

\* _ERROR_STRING_RE: the closing quote of the literal opened at position q
closing_quote(l, q) ==
    LET cs == {c \in (q + 1)..Len(l) : l[c] = DQ}
    IN  IF cs = {} THEN 0 ELSE Min(cs)

ERROR_STRING_RE_at(l) ==
    {i \in error_string_format_at(l) : closing_quote(l, i + 2) # 0}

error_string_rewrite(l) ==
    LET i == Min(ERROR_STRING_RE_at(l))
        c == closing_quote(l, i + 2)
        body == SubSeq(l, i + 4, c - 1)
        rest == IF body # <<>> /\ body[Len(body)] = "."
                THEN SubSeq(body, 1, Len(body) - 1) ELSE body
    IN  SubSeq(l, 1, i + 2) \o <<lower(l[i + 3])>> \o rest \o SubSeq(l, c, Len(l))

fix_error_strings_transform(lines, entry_seq) ==
    LET entry_lines == Range(entry_seq)
        hit == {i \in 1..Len(lines) :
                   i \in entry_lines /\ ERROR_STRING_RE_at(lines[i]) # {}}
    IN  [lines   |-> [i \in 1..Len(lines) |->
                        IF i \in hit THEN error_string_rewrite(lines[i]) ELSE lines[i]],
         removed |-> SeqFilter([i \in 1..Len(lines) |-> i], hit)]

(* ------------------------- fixers/error_wrap.py ------------------------ *)

\* return fmt.Errorf("<func>: %w", err)
wrapped_return(func_name) ==
    <<"return", "fmt.Errorf", "(", DQ, func_name, ": %w", DQ, ",", "err", ")">>

\* _SINGLE_LINE_CHECK_RE.match, _MULTI_LINE_IF_RE.match, _BARE_RETURN_RE.match
SINGLE_LINE_CHECK_RE_match(l) == IsPrefix(SingleLineCheckTokens, lstrip(l))
MULTI_LINE_IF_RE_match(l) == IsPrefix(IfErrTokens, lstrip(l))
BARE_RETURN_RE_match(l) == lstrip(l) = BareReturnTokens

\* the inner for j loop: the first bare return in lines i+1 .. i+4
first_bare_return(lines, i) ==
    LET last == IF i + 4 < Len(lines) THEN i + 4 ELSE Len(lines)
        js == {j \in (i + 1)..last : BARE_RETURN_RE_match(lines[j])}
    IN  IF js = {} THEN NoLine ELSE Min(js)

RECURSIVE error_wrap_loop(_, _, _, _, _)
error_wrap_loop(lines, entry_lines, i, removed, fixed_lines) ==
    IF i > Len(lines) THEN [lines |-> lines, removed |-> removed]
    ELSE IF i \notin entry_lines \/ i \in fixed_lines
         THEN error_wrap_loop(lines, entry_lines, i + 1, removed, fixed_lines)
    ELSE LET found == find_enclosing_func(lines, i)
             func_name == IF found = NoName THEN "operation" ELSE found
             j == first_bare_return(lines, i)
         IN  IF SINGLE_LINE_CHECK_RE_match(lines[i])
             THEN error_wrap_loop(
                    [lines EXCEPT ![i] = indent_of(lines[i])
                        \o <<"if", "err", "!=", "nil", "{">>
                        \o wrapped_return(func_name) \o <<"}">>],
                    entry_lines, i + 1, Append(removed, i), fixed_lines)
             ELSE IF MULTI_LINE_IF_RE_match(lines[i])
             THEN IF j # NoLine
                  THEN error_wrap_loop(
                         [lines EXCEPT ![j] = indent_of(lines[j]) \o wrapped_return(func_name)],
                         entry_lines, i + 1, Append(removed, i), fixed_lines \cup {j})
                  ELSE error_wrap_loop(lines, entry_lines, i + 1, removed, fixed_lines)
             ELSE IF BARE_RETURN_RE_match(lines[i])
             THEN error_wrap_loop(
                    [lines EXCEPT ![i] = indent_of(lines[i]) \o wrapped_return(func_name)],
                    entry_lines, i + 1, Append(removed, i), fixed_lines)
             ELSE error_wrap_loop(lines, entry_lines, i + 1, removed, fixed_lines)

fix_error_wrap_transform(lines, entry_seq) ==
    error_wrap_loop(lines, Range(entry_seq), 1, <<>>, {})

(* ------------------------ fixers/regex_hoist.py ------------------------ *)

\* sorted(...): insertion into an ordered list, stable for equal keys
RECURSIVE insert_sorted(_, _, _)
insert_sorted(sq, e, descending) ==
    IF sq = <<>> THEN <<e>>
    ELSE IF (descending /\ Head(sq) >= e) \/ (~descending /\ Head(sq) <= e)
         THEN <<Head(sq)>> \o insert_sorted(Tail(sq), e, descending)
    ELSE <<e>> \o sq

RECURSIVE sorted_lines(_, _)
sorted_lines(sq, descending) ==
    IF sq = <<>> THEN <<>>
    ELSE insert_sorted(sorted_lines(SubSeq(sq, 1, Len(sq) - 1), descending),
                       sq[Len(sq)], descending)

\* _REGEX_ASSIGN_RE = ^(\s*)(\w+)\s*:?=\s*(regexp\.(?:MustCompile|Compile)\s*\(.*\))\s*$
REGEX_ASSIGN_RE_match(l) ==
    LET t == lstrip(l)
    IN  /\ Len(t) >= 5
        /\ t[1] \in Words
        /\ t[2] \in {":=", "="}
        /\ t[3] \in RegexpCtors
        /\ t[4] = "("
        /\ t[Len(t)] = ")"

hoist_line(for_line, l) ==
    LET t == lstrip(l)
    IN  indent_of(for_line) \o <<t[1], ":=">> \o SubSeq(t, 3, Len(t))

RECURSIVE regex_hoist_loop(_, _, _)
regex_hoist_loop(lines, sorted_entries, removed) ==
    IF sorted_entries = <<>> THEN [lines |-> lines, removed |-> removed]
    ELSE LET idx == Head(sorted_entries)
             for_idx == find_enclosing_for(lines, idx)
         IN  IF idx < 1 \/ idx > Len(lines)
             THEN regex_hoist_loop(lines, Tail(sorted_entries), removed)
             ELSE IF ~REGEX_ASSIGN_RE_match(lines[idx]) \/ for_idx = NoLine
             THEN regex_hoist_loop(lines, Tail(sorted_entries), removed)
             ELSE regex_hoist_loop(
                    InsertAt([lines EXCEPT ![idx] = NoText], for_idx,
                             hoist_line(lines[for_idx], lines[idx])),
                    Tail(sorted_entries), Append(removed, idx))

\* lines = [ln for ln in lines if ln != ""]
RECURSIVE drop_no_text(_)
drop_no_text(lines) ==
    IF lines = <<>> THEN <<>>
    ELSE IF Head(lines) = NoText THEN drop_no_text(Tail(lines))
    ELSE <<Head(lines)>> \o drop_no_text(Tail(lines))

fix_regex_hoist_transform(lines, entry_seq) ==
    LET r == regex_hoist_loop(lines, sorted_lines(entry_seq, TRUE), <<>>)
    IN  [lines |-> drop_no_text(r.lines), removed |-> r.removed]

(* ----------------------- fixers/string_builder.py ---------------------- *)

\* _CONCAT_RE = ^(\s*)(\w+)\s*\+=\s*(.+)$
CONCAT_RE_match(l) ==
    LET t == lstrip(l) IN Len(t) >= 3 /\ t[1] \in Words /\ t[2] = "+="

\* the brace scan for the end of the loop body (lines 66-79); start is the
\* position of the for line after the builder declaration was inserted
RECURSIVE builder_loop_end(_, _, _, _, _)
builder_loop_end(lines, j, brace_depth, found_open, default) ==
    IF j > Len(lines) THEN default
    ELSE LET d == brace_depth + Count(lines[j], "{") - Count(lines[j], "}")
             fo == found_open \/ Count(lines[j], "{") > 0
         IN  IF fo /\ d <= 0 THEN j
             ELSE builder_loop_end(lines, j + 1, d, fo, default)

RECURSIVE string_builder_loop(_, _, _, _)
string_builder_loop(lines, sorted_entries, removed, processed_loops) ==
    IF sorted_entries = <<>> THEN [lines |-> lines, removed |-> removed]
    ELSE LET idx == Head(sorted_entries)
             for_idx == find_enclosing_for(lines, idx)
         IN  IF idx < 1 \/ idx > Len(lines)
             THEN string_builder_loop(lines, Tail(sorted_entries), removed, processed_loops)
             ELSE IF ~CONCAT_RE_match(lines[idx]) \/ for_idx = NoLine
             THEN string_builder_loop(lines, Tail(sorted_entries), removed, processed_loops)
             ELSE LET t == lstrip(lines[idx])
                      written == [lines EXCEPT ![idx] = indent_of(lines[idx])
                                    \o <<"sb.WriteString", "(">>
                                    \o SubSeq(t, 3, Len(t)) \o <<")">>]
                      for_indent == indent_of(written[for_idx])
                      declared == InsertAt(written, for_idx,
                                    for_indent \o <<"var", "sb", "strings.Builder">>)
                      loop_end == builder_loop_end(declared, for_idx + 1, 0, FALSE,
                                                   for_idx + 1)
                      assigned == InsertAt(declared, loop_end + 1,
                                    for_indent \o <<t[1], "=", "sb.String", "(", ")">>)
                  IN  IF for_idx \in processed_loops
                      THEN string_builder_loop(written, Tail(sorted_entries),
                                               Append(removed, idx), processed_loops)
                      ELSE string_builder_loop(assigned, Tail(sorted_entries),
                                               Append(removed, idx),
                                               processed_loops \cup {for_idx})

fix_string_builder_transform(lines, entry_seq) ==
    string_builder_loop(lines, sorted_lines(entry_seq, FALSE), <<>>, {})


(* --------------------------- the fixer registry ------------------------ *)

Fixers == {"error-wrap", "error-strings", "regex-hoist", "string-builder",
           "mutex-pointer"}

\* the smell ids a fixer's detect step flattens, in SMELL_CHECKS order
fixer_smells(fx) ==
    CASE fx = "error-wrap"     -> <<"bare_error_return", "empty_error_check">>
      [] fx = "error-strings"  -> <<"error_string_format">>
      [] fx = "regex-hoist"    -> <<"regex_in_loop">>
      [] fx = "string-builder" -> <<"string_concat_loop">>
      [] fx = "mutex-pointer"  -> <<"mutex_copy">>

\* the _transform closure of a fixer's fix function
transform_fn(fx, lines, entry_seq) ==
    CASE fx = "error-wrap"     -> fix_error_wrap_transform(lines, entry_seq)
      [] fx = "error-strings"  -> fix_error_strings_transform(lines, entry_seq)
      [] fx = "regex-hoist"    -> fix_regex_hoist_transform(lines, entry_seq)
      [] fx = "string-builder" -> fix_string_builder_transform(lines, entry_seq)
      [] fx = "mutex-pointer"  -> fix_mutex_pointer_transform(lines, entry_seq)

(* ------------------------------ the project ---------------------------- *)

\* the source files of the project, in the order find_source_files lists them
Files == {"a.go", "b.go"}
FileOrder == <<"a.go", "b.go">>

\* the file keys an entry can carry: a path relative to PROJECT_ROOT or the
\* absolute path of the same file; KeyOrder is their order under sorted()
AbsA == "/proj/a.go"
Keys == {AbsA, "a.go", "b.go"}
KeyOrder == <<AbsA, "a.go", "b.go">>

\* Path(filepath) if Path(filepath).is_absolute() else PROJECT_ROOT / filepath
resolve(key) == IF key = AbsA THEN "a.go" ELSE key

\* detect_smells: smell_counts[id] over the readable files
RECURSIVE smell_matches(_, _, _, _)
smell_matches(id, dsk, unread, order) ==
    IF order = <<>> THEN <<>>
    ELSE LET fl == Head(order)
             here == IF fl \in unread THEN <<>>
                     ELSE LET ls == file_smell_lines(id, dsk[fl])
                          IN  [i \in 1..Len(ls) |->
                                 [file |-> fl, line |-> ls[i], smell_id |-> id]]
         IN  here \o smell_matches(id, dsk, unread, Tail(order))

\* entry["matches"] = matches[:50]
sample(matches) ==
    SubSeq(matches, 1, IF Len(matches) < SampleCap THEN Len(matches) ELSE SampleCap)

\* detect_<fixer>: the flat entries, in the order of the sorted smell entries
\* (all the fixers' smells of one fixer have the same severity, so the stable
\* sort orders them by descending count)
detect_entries(fx, dsk, unread) ==
    LET ids == fixer_smells(fx)
        m1 == smell_matches(ids[1], dsk, unread, FileOrder)
        m2 == smell_matches(ids[2], dsk, unread, FileOrder)
    IN  IF Len(ids) = 1 THEN sample(m1)
        ELSE IF Len(m2) > Len(m1) THEN sample(m2) \o sample(m1)
        ELSE sample(m1) \o sample(m2)

\* the same entries once more under the absolute path of a.go
RECURSIVE aliased(_)
aliased(es) ==
    IF es = <<>> THEN <<>>
    ELSE IF Head(es).file = "a.go"
         THEN <<[Head(es) EXCEPT !.file = AbsA]>> \o aliased(Tail(es))
    ELSE aliased(Tail(es))

\* by_file[key]: the line numbers of the entries of one file key, in order
RECURSIVE by_file(_, _)
by_file(es, key) ==
    IF es = <<>> THEN <<>>
    ELSE IF Head(es).file = key THEN <<Head(es).line>> \o by_file(Tail(es), key)
    ELSE by_file(Tail(es), key)

\* sorted(by_file.items()): the keys that occur, in sorted order
sorted_keys(es) == SeqFilter(KeyOrder, {es[i].file : i \in DOMAIN es})

\* "".join(new_lines): a deletion marker contributes nothing
join(lines) == drop_no_text(lines)

(* --------------------------- line alphabets ---------------------------- *)

W_func   == <<"func", "Load", "(", ")", "error", "{">>
W_if     == <<Tab, "if", "err", "!=", "nil", "{">>
W_ret    == <<Tab, Tab, "return", "err">>
W_close  == <<Tab, "}">>
W_single == <<Tab, "if", "err", "!=", "nil", "{", "return", "err", "}">>
W_else   == <<Tab, "}", "else", "if", "err", "!=", "nil", "{", "return", "err", "}">>

S_cap == <<Tab, "return", "errors.New", "(", DQ, "Invalid", "input", ".", DQ, ")">>
S_low == <<Tab, "return", "errors.New", "(", DQ, "not", "found", DQ, ")">>
S_two == <<Tab, "return", "fmt.Errorf", "(", DQ, "Failed", ": %w", DQ, ",",
           "errors.New", "(", DQ, "Bad", DQ, ")", ")">>
S_cmt == <<Tab, "//", "errors.New", "(", DQ, "Bad", DQ, ")">>

R_for   == <<Tab, "for", "cond", "{">>
R_re    == <<Tab, Tab, "re", ":=", "regexp.MustCompile", "(", DQ, "x", DQ, ")">>
R_use   == <<Tab, Tab, "use", "(", "regexp.MustCompile", "(", DQ, "x", DQ, ")", ")">>
R_close == <<Tab, "}">>

B_for   == <<Tab, "for", "cond", "{">>
B_cat   == <<Tab, Tab, "s", "+=", "x">>
B_num   == <<Tab, Tab, "n", "+=", "1">>
B_field == <<Tab, Tab, "o", ".", "f", "+=", "x">>
B_close == <<Tab, "}">>

M_val   == <<"func", "withLock", "(", "mu", "sync.Mutex", ")", "{">>
M_ptr   == <<"func", "alreadyPointer", "(", "mu", "*", "sync.Mutex", ")", "{">>
M_multi == <<"func", "multiParam", "(", "name", "string", ",", "mu", "sync.Mutex",
             ",", "count", "int", ")", "{">>
M_both  == <<"func", "both", "(", "a", "*", "sync.Mutex", ",", "b", "sync.Mutex",
             ")", "{">>
M_bare  == <<"func", "bare", "(", "sync.Mutex", ")", "{">>

Alphabet(fx) ==
    CASE fx = "error-wrap"     -> {W_func, W_if, W_ret, W_close, W_single, W_else}
      [] fx = "error-strings"  -> {S_cap, S_low, S_two, S_cmt}
      [] fx = "regex-hoist"    -> {R_for, R_re, R_use, R_close}
      [] fx = "string-builder" -> {B_for, B_cat, B_num, B_field, B_close}
      [] fx = "mutex-pointer"  -> {M_val, M_ptr, M_multi, M_both, M_bare}

\* every file body of at most n lines over a fixer's alphabet
Bodies(fx, n) == UNION {[1..k -> Alphabet(fx)] : k \in 0..n}


(* ------------------ apply_fixer as a state machine --------------------- *)

VARIABLES
    fixer,        \* the fixer the caller runs
    disk,         \* content of every source file: a sequence of lines
    tmp,          \* the temporary sibling of every file: absent, partial, complete
    entries,      \* the entry list passed to the fix function
    pc,           \* "idle", or the position inside apply_fixer
    dry_run,      \* the dry_run argument of the running call
    queue,        \* the keys of sorted(by_file.items()) not yet processed
    original,     \* p.read_text() of the file being processed
    new_content,  \* "".join(new_lines) of the file being written
    visited,      \* the keys whose loop body has been entered, in order
    results,      \* the change records collected so far
    skipped,      \* the files reported with "Skip ..." on stderr
    unread,       \* the keys whose read_text raised during the running call
    exc,          \* the exception in flight inside the write block
    start,        \* the disk when the running call started
    faults,       \* the number of I/O faults the environment has injected
    hist          \* the completed calls, oldest first

fixvars == <<fixer, disk, tmp, entries, pc, dry_run, queue, original,
             new_content, visited, results, skipped, unread, exc, start,
             faults, hist>>

\* build_dep_graph (detectors/deps.py)
VARIABLES
    tree,         \* the .go files under the scan path and their import declarations
    gomod,        \* where go.mod is, or what is wrong with it
    locked,       \* the files whose read_text raises
    dpc,          \* "idle", or the position inside build_dep_graph
    module_path,  \* the result of _parse_module_path
    files,        \* the result of _find_go_files
    todo,         \* the files the running loop has not reached yet
    pkg_to_files, \* package import path -> the files of the package
    file_to_pkg,  \* file -> its package import path
    graph         \* file -> its imports and importers sets

depvars == <<tree, gomod, locked, dpc, module_path, files, todo, pkg_to_files,
             file_to_pkg, graph>>

\* the parameter list of one function declaration (extractors.py)
VARIABLES
    decl,         \* the parameters of the declaration, as written
    ppc,          \* "idle", or the position inside _extract_functions_regex
    cursor,       \* the index i of the parenthesis scan
    depth,        \* the depth of the parenthesis scan
    param_text,   \* content[paren_start + 1:i - 1]
    params        \* the result of _extract_params_from_sig

parvars == <<decl, ppc, cursor, depth, param_text, params>>

\* the end of one function and its normalized body (extractors.py)
VARIABLES
    flines,       \* content.splitlines() of a file that holds one function
    epc,          \* "idle", or the position inside _extract_functions_regex
    brace_i,      \* the line index i of _find_matching_brace
    brace_depth,  \* the depth of _find_matching_brace
    end_line,     \* the result of _find_matching_brace
    func_loc,     \* the loc of the FunctionInfo, or NoLine when none is reported
    norm_in,      \* the body text handed to _normalize_go_body first
    norm_out,     \* what each application of _normalize_go_body returned
    fread,        \* what _read_file does for the file: "ok" or "error"
    structs       \* the result of extract_go_structs, or None

extvars == <<flines, epc, brace_i, brace_depth, end_line, func_loc, norm_in,
             norm_out, fread, structs>>

\* detect_unused (detectors/unused.py)
VARIABLES
    go_binary,    \* shutil.which("go") finds the tool
    gomod_here,   \* path / "go.mod" exists
    vet_outcome,  \* what subprocess.run does when it is called
    vet_stderr,   \* the diagnostics the tool prints
    usrc,         \* the source files: file -> lines
    ulocked,      \* the files whose read_text raises
    category,     \* the category argument
    upc,          \* "idle", or the position inside detect_unused
    uentries,     \* the entries, or None
    regex_ran,    \* _detect_unused_regex has been called
    utodo,        \* the files the fallback has not reached yet
    usmells       \* smell_counts["ignored_error"] of detect_smells, or None

unvars == <<go_binary, gomod_here, vet_outcome, vet_stderr, usrc, ulocked,
            category, upc, uentries, regex_ran, utodo, usmells>>

(* ------------------ the state of the remaining components --------------- *)

VARIABLES
    declarations,        \* the declarations of the file the extractors read, by kind
    functions     \* the result of extract_go_functions, None before the call

declvars == <<declarations, functions>>

VARIABLES
    pname,        \* the name of the file detect_smells reads
    plines,       \* content.splitlines() of that file
    panics        \* smell_counts["panic_in_lib"], None before the call

panicvars == <<pname, plines, panics>>

VARIABLES
    yaml,         \* .desloppify/go.yaml: what it holds, or that it is absent
    config,       \* what load_go_config returned or raised, None before the call
    lang,         \* the attributes of the GoConfig, None before __init__
    used          \* the thresholds _phase_structural passed on, None before

cfgvars == <<yaml, config, lang, used>>

VARIABLES
    zone_map,     \* lang._zone_map is set
    dep_cache,    \* lang._dep_graph, None before it is assigned
    cpc,          \* "idle", or the phase of the scan that is running
    cache_log,    \* the reads and writes of lang._dep_graph, in their order
    tc_graph      \* the graph _phase_test_coverage works on, None before

cachevars == <<zone_map, dep_cache, cpc, cache_log, tc_graph>>

VARIABLES
    cfixer,       \* the fixer whose detect step is called
    cdisk,        \* the project the detect step reads
    counted,      \* the sum of the count fields of the fixer's smell entries
    flat          \* the entries the detect step returned, None before

countvars == <<cfixer, cdisk, counted, flat>>

VARIABLES
    extra_exclusions,    \* utils._extra_exclusions, the process-wide patterns
    source_cache, \* what _find_source_files_cached holds for the path
    dtree,        \* the files under the path the detector is run on
    invoked,      \* cmd_detect has been called in this process
    exclude,      \* args.exclude of the latest cmd_detect
    scanned       \* the files the detector of that invocation read

detvars == <<extra_exclusions, source_cache, dtree, invoked, exclude, scanned>>

VARIABLES
    sm_files,     \* the files detect_smells reads, each as its lines
    sm_f,         \* the position of the for loop over the files
    sm_pc,        \* the loop of detect_smells that is running
    sm_i,         \* the line index of the running loop over the lines
    sm_pos,       \* the position inside the line (pos, or i of the in-string check)
    sm_in_raw,    \* in_raw_string of _build_string_line_set: inside a multi-line raw string
    sm_string_lines,     \* the set _build_string_line_set has built
    sm_match_start,      \* the position _match_is_in_string is asked about
    sm_in_string, \* in_string of _match_is_in_string: "none", or the quote that is open
    sm_j,         \* _detect_loop_smells: the line index of the brace scan
    sm_depth,     \* _detect_loop_smells: brace_depth
    sm_found_open \* found_open of _detect_loop_smells: an opening brace has been seen

smvars == <<sm_files, sm_f, sm_pc, sm_i, sm_pos, sm_in_raw, sm_string_lines,
            sm_match_start, sm_in_string, sm_j, sm_depth, sm_found_open>>

tailvars == <<detvars, smvars>>

\* the components that the fixers, the graph, the extractors and the unused
\* detector leave alone
restvars == <<declvars, panicvars, cfgvars, cachevars, countvars, tailvars>>

\* the five components above, for the actions of the remaining ones
corevars == <<fixvars, depvars, parvars, extvars, unvars>>

InitDeclIdle == declarations = <<>> /\ functions = None

InitPanicIdle == pname = "" /\ plines = <<>> /\ panics = None

InitCfgIdle ==
    /\ yaml = [kind |-> "absent"]
    /\ config = None
    /\ lang = None
    /\ used = None

InitCacheIdle ==
    /\ zone_map = FALSE
    /\ dep_cache = None
    /\ cpc = "idle"
    /\ cache_log = <<>>
    /\ tc_graph = None

InitCountIdle ==
    /\ cfixer = ""
    /\ cdisk = <<>>
    /\ counted = 0
    /\ flat = None

InitDetectIdle ==
    /\ extra_exclusions = {}
    /\ source_cache = [filled |-> FALSE]
    /\ dtree = {}
    /\ invoked = FALSE
    /\ exclude = {}
    /\ scanned = {}

InitSmellsIdle ==
    /\ sm_files = <<>>
    /\ sm_f = 0
    /\ sm_pc = "idle"
    /\ sm_i = 0
    /\ sm_pos = 0
    /\ sm_in_raw = FALSE
    /\ sm_string_lines = {}
    /\ sm_match_start = 0
    /\ sm_in_string = "none"
    /\ sm_j = 0
    /\ sm_depth = 0
    /\ sm_found_open = FALSE

InitTailIdle == InitDetectIdle /\ InitSmellsIdle

InitRestIdle ==
    /\ InitDeclIdle /\ InitPanicIdle /\ InitCfgIdle /\ InitCacheIdle /\ InitCountIdle
    /\ InitTailIdle

\* the exceptions the write block can see: one the outer handler catches and
\* one (a BaseException that is no OSError) it does not
ExcKinds == {"OSError", "KeyboardInterrupt"}

\* projects of two files with at most n lines in total
Projects(fx, n) ==
    {d \in [Files -> Bodies(fx, n)] : Len(d["a.go"]) + Len(d["b.go"]) <= n}

\* projects whose only source text is in a.go, of at most n lines
SingleFileProjects(fx, n) ==
    {[f \in Files |-> IF f = "a.go" THEN body ELSE <<>>] : body \in Bodies(fx, n)}

InitRest ==
    /\ tmp = [f \in Files |-> "absent"]
    /\ entries = <<>>
    /\ pc = "idle"
    /\ dry_run = FALSE
    /\ queue = <<>>
    /\ original = <<>>
    /\ new_content = <<>>
    /\ visited = <<>>
    /\ results = <<>>
    /\ skipped = <<>>
    /\ unread = {}
    /\ exc = "none"
    /\ start = disk
    /\ faults = 0
    /\ hist = <<>>

InitFix ==
    /\ fixer \in Fixers
    /\ disk \in Projects(fixer, MaxLines)
    /\ InitRest

\* the file apply_fixer is working on
cur_key == Head(queue)
cur_path == resolve(cur_key)

\* the caller: entries = fc.detect(path), possibly naming a.go a second time
\* by its absolute path, then fc.fix(entries, dry_run=dry); apply_fixer
\* lines 53-58 group the entries by file and start the loop
StartFix(dry, alias) ==
    /\ pc = "idle"
    /\ Len(hist) < MaxRuns
    /\ LET detected == detect_entries(fixer, disk, {})
           es == IF alias THEN detected \o aliased(detected) ELSE detected
       IN  /\ alias => aliased(detected) # <<>>
           /\ entries' = es
           /\ queue' = sorted_keys(es)
    /\ pc' = "loop"
    /\ dry_run' = dry
    /\ results' = <<>>
    /\ skipped' = <<>>
    /\ unread' = {}
    /\ start' = disk
    /\ visited' = <<>>
    /\ UNCHANGED <<fixer, disk, tmp, original, new_content, exc, faults, hist>>
    /\ UNCHANGED <<depvars, parvars, extvars, unvars, restvars>>

\* line 61 raises OSError or UnicodeDecodeError; lines 82-83 print the
\* warning and the loop goes on
ReadFails ==
    /\ pc = "loop" /\ queue # <<>>
    /\ faults < MaxFaults
    /\ faults' = faults + 1
    /\ skipped' = Append(skipped, cur_key)
    /\ unread' = unread \cup {cur_key}
    /\ queue' = Tail(queue)
    /\ visited' = Append(visited, cur_key)
    /\ UNCHANGED <<fixer, disk, tmp, entries, pc, dry_run, original,
                   new_content, results, exc, start, hist>>
    /\ UNCHANGED <<depvars, parvars, extvars, unvars, restvars>>

\* the change record of lines 68-73
change_record(key, orig, content, removed) ==
    [file |-> key, removed |-> removed, lines_removed |-> Len(orig) - Len(content)]

\* lines 61-74 without the dry_run test of line 74
Transform_ignoring_dry_run ==
    /\ pc = "loop" /\ queue # <<>>
    /\ LET orig == disk[cur_path]
           t == transform_fn(fixer, orig, by_file(entries, cur_key))
           content == join(t.lines)
       IN  IF content # orig
           THEN /\ results' = Append(results,
                                     change_record(cur_key, orig, content, t.removed))
                /\ pc' = "write" /\ new_content' = content /\ UNCHANGED queue
           ELSE queue' = Tail(queue) /\ UNCHANGED <<pc, new_content, results>>
    /\ original' = disk[cur_path]
    /\ visited' = Append(visited, cur_key)
    /\ UNCHANGED <<fixer, disk, tmp, entries, dry_run, skipped, unread, exc,
                   start, faults, hist>>
    /\ UNCHANGED <<depvars, parvars, extvars, unvars, restvars>>

\* lines 61-74: read, transform, compare, record
Transform ==
    /\ pc = "loop" /\ queue # <<>>
    /\ LET orig == disk[cur_path]
           t == transform_fn(fixer, orig, by_file(entries, cur_key))
           content == join(t.lines)
       IN  IF content # orig
           THEN /\ results' = Append(results,
                                     change_record(cur_key, orig, content, t.removed))
                /\ IF dry_run
                   THEN queue' = Tail(queue) /\ UNCHANGED <<pc, new_content>>
                   ELSE pc' = "write" /\ new_content' = content /\ UNCHANGED queue
           ELSE queue' = Tail(queue) /\ UNCHANGED <<pc, new_content, results>>
    /\ original' = disk[cur_path]
    /\ visited' = Append(visited, cur_key)
    /\ UNCHANGED <<fixer, disk, tmp, entries, dry_run, skipped, unread, exc,
                   start, faults, hist>>
    /\ UNCHANGED <<depvars, parvars, extvars, unvars, restvars>>

\* line 77: tmp.write_text(new_content) succeeds
WriteTmp ==
    /\ pc = "write"
    /\ tmp' = [tmp EXCEPT ![cur_path] = "complete"]
    /\ pc' = "replace"
    /\ UNCHANGED <<fixer, disk, entries, dry_run, queue, new_content,
                   results, skipped, unread, exc, start, faults, hist, original, visited>>
    /\ UNCHANGED <<depvars, parvars, extvars, unvars, restvars>>

\* line 77 raises: the temporary file was not created, or it was created and
\* holds only a part of the new content
WriteTmpFails(created, e) ==
    /\ pc = "write"
    /\ faults < MaxFaults
    /\ faults' = faults + 1
    /\ tmp' = [tmp EXCEPT ![cur_path] = IF created THEN "partial" ELSE "absent"]
    /\ exc' = e
    /\ pc' = "cleanup"
    /\ UNCHANGED <<fixer, disk, entries, dry_run, queue, new_content,
                   results, skipped, unread, start, hist, original, visited>>
    /\ UNCHANGED <<depvars, parvars, extvars, unvars, restvars>>

\* line 78: os.replace(tmp, p) renames the temporary file over the original
Replace ==
    /\ pc = "replace"
    /\ tmp[cur_path] = "complete"
    /\ disk' = [disk EXCEPT ![cur_path] = new_content]
    /\ tmp' = [tmp EXCEPT ![cur_path] = "absent"]
    /\ pc' = "loop"
    /\ queue' = Tail(queue)
    /\ UNCHANGED <<fixer, entries, dry_run, new_content, results,
                   skipped, unread, exc, start, faults, hist, original, visited>>
    /\ UNCHANGED <<depvars, parvars, extvars, unvars, restvars>>

\* line 78 raises
ReplaceFails(e) ==
    /\ pc = "replace"
    /\ faults < MaxFaults
    /\ faults' = faults + 1
    /\ exc' = e
    /\ pc' = "cleanup"
    /\ UNCHANGED <<fixer, disk, tmp, entries, dry_run, queue,
                   new_content, results, skipped, unread, start, hist, original, visited>>
    /\ UNCHANGED <<depvars, parvars, extvars, unvars, restvars>>

\* lines 79-81 without the unlink
Cleanup_without_unlink ==
    /\ pc = "cleanup"
    /\ pc' = "reraise"
    /\ UNCHANGED <<fixer, disk, tmp, entries, dry_run, queue, new_content,
                   results, skipped, unread, exc, start, faults, hist, original, visited>>
    /\ UNCHANGED <<depvars, parvars, extvars, unvars, restvars>>

\* lines 79-81: tmp.unlink(missing_ok=True); raise
Cleanup ==
    /\ pc = "cleanup"
    /\ tmp' = [tmp EXCEPT ![cur_path] = "absent"]
    /\ pc' = "reraise"
    /\ UNCHANGED <<fixer, disk, entries, dry_run, queue, new_content,
                   results, skipped, unread, exc, start, faults, hist, original, visited>>
    /\ UNCHANGED <<depvars, parvars, extvars, unvars, restvars>>

\* an outer handler that leaves the loop after the warning
SkipFile_and_stop ==
    /\ pc = "reraise"
    /\ exc = "OSError"
    /\ skipped' = Append(skipped, cur_key)
    /\ queue' = <<>>
    /\ exc' = "none"
    /\ pc' = "loop"
    /\ UNCHANGED <<fixer, disk, tmp, entries, dry_run, new_content,
                   results, unread, start, faults, hist, original, visited>>
    /\ UNCHANGED <<depvars, parvars, extvars, unvars, restvars>>

\* lines 82-83: the outer handler catches the re-raised OSError
SkipFile ==
    /\ pc = "reraise"
    /\ exc = "OSError"
    /\ skipped' = Append(skipped, cur_key)
    /\ queue' = Tail(queue)
    /\ exc' = "none"
    /\ pc' = "loop"
    /\ UNCHANGED <<fixer, disk, tmp, entries, dry_run, new_content,
                   results, unread, start, faults, hist, original, visited>>
    /\ UNCHANGED <<depvars, parvars, extvars, unvars, restvars>>

\* what a completed call leaves in the history
call_record(outcome, res) ==
    [dry |-> dry_run, start |-> start, end |-> disk, entries |-> entries,
     results |-> res, skipped |-> skipped, unread |-> unread,
     visited |-> visited, outcome |-> outcome]

\* any other exception leaves apply_fixer: the caller gets no result
Propagate ==
    /\ pc = "reraise"
    /\ exc # "OSError"
    /\ hist' = Append(hist, call_record(exc, <<>>))
    /\ exc' = "none"
    /\ pc' = "idle"
    /\ queue' = <<>>
    /\ UNCHANGED <<fixer, disk, tmp, entries, dry_run, new_content,
                   results, skipped, unread, start, faults, original, visited>>
    /\ UNCHANGED <<depvars, parvars, extvars, unvars, restvars>>

\* line 85: return results
Return ==
    /\ pc = "loop" /\ queue = <<>>
    /\ hist' = Append(hist, call_record("returned", results))
    /\ pc' = "idle"
    /\ UNCHANGED <<fixer, disk, tmp, entries, dry_run, queue,
                   new_content, results, skipped, unread, exc, start, faults, original, visited>>
    /\ UNCHANGED <<depvars, parvars, extvars, unvars, restvars>>

NextFix ==
    \/ \E dry \in BOOLEAN, alias \in BOOLEAN : StartFix(dry, alias)
    \/ ReadFails
    \/ Transform
    \/ WriteTmp
    \/ \E created \in BOOLEAN, e \in ExcKinds : WriteTmpFails(created, e)
    \/ Replace
    \/ \E e \in ExcKinds : ReplaceFails(e)
    \/ Cleanup
    \/ SkipFile
    \/ Propagate
    \/ Return


(* --------------------------- detectors/deps.py ------------------------- *)

\* import paths and package paths are sequences of their "/"-separated parts
ModulePath == <<"example.com", "app">>
NoModule   == <<>>
Dot        == <<".">>
ImportPaths == {<<"fmt">>, ModulePath, ModulePath \o <<"lib">>, <<"lib">>}

\* the .go files a scanned tree can hold
SourceFiles == {"main.go", "lib/a.go", "lib/b.go"}
OtherFiles  == {"lib/a_test.go", "vendor/v.go"}
GoFiles     == SourceFiles \cup OtherFiles
GoFileOrder == <<"lib/a.go", "lib/a_test.go", "lib/b.go", "main.go", "vendor/v.go">>

\* os.path.relpath(abs_dir, path), as the parts of the directory
rel_dir(f) ==
    CASE f = "main.go"              -> Dot
      [] f \in {"lib/a.go", "lib/b.go", "lib/a_test.go"} -> <<"lib">>
      [] f = "vendor/v.go"          -> <<"vendor">>

\* f.endswith("_test.go")
is_test_file(f) == f = "lib/a_test.go"

\* the exclusions ["vendor", "testdata"] handed to find_source_files
is_excluded(f) == f = "vendor/v.go"

\* one import declaration: import "p", import alias "p", or import ( ... )
ImportForms == {"single", "aliased", "group"}
import_decl(form, paths) == [form |-> form, paths |-> paths]

\* the file contents: at most one declaration, of at most n import paths
Contents(n) ==
    {<<>>}
    \cup {<<import_decl(form, <<q>>)>> : form \in {"single", "aliased"}, q \in ImportPaths}
    \cup {<<import_decl("group", ps)>> :
              ps \in UNION {[1..k -> ImportPaths] : k \in 0..n}}

\* the number of import paths a file content declares
declared_count(content) == IF content = <<>> THEN 0 ELSE Len(content[1].paths)

\* the trees of at most MaxImports declared import paths: one file declares
\* some, a second file at most one, and the files that are not scanned none
TreesOn(domain, present) ==
    {[f \in domain |-> <<>>]}
    \cup UNION {{[f \in domain |-> IF f = f1 THEN c1 ELSE IF f = f2 THEN c2 ELSE <<>>] :
                   f1 \in present, f2 \in present,
                   c2 \in {c \in Contents(1) :
                              declared_count(c) + declared_count(c1) <= MaxImports}} :
                c1 \in Contents(MaxImports)}

Trees ==
    UNION {TreesOn(present \cup extra, present) :
              present \in SUBSET SourceFiles, extra \in {{}, OtherFiles}}

\* _extract_imports: the paths of the grouped blocks first, then those of the
\* single-line imports outside the blocks
RECURSIVE extract_form(_, _)
extract_form(content, forms) ==
    IF content = <<>> THEN <<>>
    ELSE (IF Head(content).form \in forms THEN Head(content).paths ELSE <<>>)
         \o extract_form(Tail(content), forms)

extract_imports(content) ==
    extract_form(content, {"group"}) \o extract_form(content, {"single", "aliased"})

\* _parse_module_path: the module path, or None when go.mod is found neither
\* at the scan path nor in a parent, cannot be read, or has no module line
GoModStates == {"here", "parent", "none", "unreadable", "no_module_line"}
parse_module_path(gm) == IF gm \in {"here", "parent"} THEN ModulePath ELSE NoModule

\* find_source_files(path, [".go"], exclusions=["vendor", "testdata"])
find_source_files(tr) == SeqFilter(GoFileOrder, {f \in DOMAIN tr : ~is_excluded(f)})

\* _find_go_files without the _test.go filter
find_go_files_with_tests(tr) == find_source_files(tr)

\* _find_go_files
find_go_files(tr) ==
    LET all_go == find_source_files(tr)
    IN  SeqFilter(all_go, {f \in Range(all_go) : ~is_test_file(f)})

\* resolve_path(filepath)
resolve_path(f) == f

\* lines 106-114
pkg_path(mp, f) ==
    IF mp # NoModule
    THEN IF rel_dir(f) # Dot THEN mp \o rel_dir(f) ELSE mp
    ELSE rel_dir(f)

\* pkg_to_files.get(imp, [])
get(index, imp) == IF imp \in DOMAIN index THEN index[imp] ELSE <<>>

\* lines 99-118 for every file
RECURSIVE index_packages(_, _, _)
index_packages(fs, mp, index) ==
    IF fs = <<>> THEN index
    ELSE LET f == Head(fs)
             pk == pkg_path(mp, f)
             grown == [q \in DOMAIN index \cup {pk} |->
                          IF q = pk THEN Append(get(index, pk), resolve_path(f))
                          ELSE index[q]]
         IN  index_packages(Tail(fs), mp, grown)

InitDepsIdle ==
    /\ tree = <<>>
    /\ gomod = "none"
    /\ locked = {}
    /\ dpc = "idle"
    /\ module_path = NoModule
    /\ files = <<>>
    /\ todo = <<>>
    /\ pkg_to_files = <<>>
    /\ file_to_pkg = <<>>
    /\ graph = <<>>

\* lines 90-92
ParseModulePath ==
    /\ dpc = "start"
    /\ module_path' = parse_module_path(gomod)
    /\ files' = find_go_files(tree)
    /\ dpc' = "index"
    /\ UNCHANGED <<tree, gomod, locked, todo, pkg_to_files, file_to_pkg, graph>>
    /\ UNCHANGED <<fixvars, parvars, extvars, unvars, restvars>>

\* lines 96-118
IndexPackages ==
    /\ dpc = "index"
    /\ pkg_to_files' = index_packages(files, module_path, <<>>)
    /\ file_to_pkg' = [f \in {resolve_path(g) : g \in Range(files)} |-> pkg_path(module_path, f)]
    /\ dpc' = "graph"
    /\ UNCHANGED <<tree, gomod, locked, module_path, files, todo, graph>>
    /\ UNCHANGED <<fixvars, parvars, extvars, unvars, restvars>>

\* lines 120-124
InitGraph ==
    /\ dpc = "graph"
    /\ graph' = [f \in {resolve_path(g) : g \in Range(files)} |->
                    [imports |-> {}, importers |-> {}]]
    /\ todo' = files
    /\ dpc' = "scan"
    /\ UNCHANGED <<tree, gomod, locked, module_path, files, pkg_to_files, file_to_pkg>>
    /\ UNCHANGED <<fixvars, parvars, extvars, unvars, restvars>>

\* lines 131-134: the file cannot be read
ScanFileUnreadable ==
    /\ dpc = "scan" /\ todo # <<>>
    /\ Head(todo) \in locked
    /\ todo' = Tail(todo)
    /\ UNCHANGED <<tree, gomod, locked, dpc, module_path, files, pkg_to_files,
                   file_to_pkg, graph>>
    /\ UNCHANGED <<fixvars, parvars, extvars, unvars, restvars>>

\* lines 140-142: the files an import of the file resolves to
targets_first_only(index, resolved, imp) ==
    LET fs == get(index, imp)
    IN  IF fs = <<>> THEN {} ELSE {Head(fs)} \ {resolved}

targets(index, resolved, imp) ==
    {t \in Range(get(index, imp)) : t # resolved}

\* lines 143-144 for every target
add_imports_only(g, resolved, ts) ==
    [f \in DOMAIN g |->
        [imports   |-> IF f = resolved THEN g[f].imports \cup ts ELSE g[f].imports,
         importers |-> g[f].importers]]

add_edges(g, resolved, ts) ==
    [f \in DOMAIN g |->
        [imports   |-> IF f = resolved THEN g[f].imports \cup ts ELSE g[f].imports,
         importers |-> IF f \in ts THEN g[f].importers \cup {resolved}
                       ELSE g[f].importers]]

\* lines 128-144: read the file, extract its imports, add the edges
ScanFile ==
    /\ dpc = "scan" /\ todo # <<>>
    /\ Head(todo) \notin locked
    /\ LET filepath == Head(todo)
           resolved == resolve_path(filepath)
           imports == extract_imports(tree[filepath])
           ts == UNION {targets(pkg_to_files, resolved, imports[k]) : k \in DOMAIN imports}
       IN  graph' = add_edges(graph, resolved, ts)
    /\ todo' = Tail(todo)
    /\ UNCHANGED <<tree, gomod, locked, dpc, module_path, files, pkg_to_files,
                   file_to_pkg>>
    /\ UNCHANGED <<fixvars, parvars, extvars, unvars, restvars>>

\* finalize_graph: every node gets the cardinalities of its edge sets
finalize_graph(g) ==
    [f \in DOMAIN g |->
        [imports |-> g[f].imports, importers |-> g[f].importers,
         import_count |-> Cardinality(g[f].imports),
         importer_count |-> Cardinality(g[f].importers)]]

\* line 146
Finalize ==
    /\ dpc = "scan" /\ todo = <<>>
    /\ graph' = finalize_graph(graph)
    /\ dpc' = "done"
    /\ UNCHANGED <<tree, gomod, locked, module_path, files, todo, pkg_to_files,
                   file_to_pkg>>
    /\ UNCHANGED <<fixvars, parvars, extvars, unvars, restvars>>

NextDeps ==
    \/ ParseModulePath
    \/ IndexPackages
    \/ InitGraph
    \/ ScanFileUnreadable
    \/ ScanFile
    \/ Finalize

(* ----------------- extractors.py: the parameter list ------------------- *)

Sp == " "

\* the names a word can be made of, by the case of their first letter
LowerIdents == {"a", "b", "c", "x", "y", "r", "f", "int", "func", "io"}
UpperIdents == {"A", "B", "C", "T", "Reader"}
Idents == LowerIdents \cup UpperIdents

ParamNames == <<"a", "b", "c", "x">>
UpperNames == <<"A", "B", "C", "T">>

\* the parameter declarations: the k-th one of each form
ParamForms == {"named", "pointer", "func", "name", "upper", "type", "qualified"}
NamedForms == {"named", "pointer", "func", "name", "upper"}
param(form, k) ==
    CASE form = "named"     -> <<ParamNames[k], Sp, "int">>
      [] form = "pointer"   -> <<ParamNames[k], Sp, "*", "T">>
      [] form = "func"      -> <<ParamNames[k], Sp, "func", "(", "x", ",", Sp, "y", Sp, "int", ")">>
      [] form = "name"      -> <<ParamNames[k]>>
      [] form = "upper"     -> <<UpperNames[k]>>
      [] form = "type"      -> <<"int">>
      [] form = "qualified" -> <<"io", ".", "Reader">>

\* Go accepts a parameter list whose parameters are all named or all unnamed;
\* a name without a type takes the type of a later parameter
ValidParams(fs) ==
    \/ \A k \in DOMAIN fs : fs[k] \notin NamedForms
    \/ /\ \A k \in DOMAIN fs : fs[k] \in NamedForms
       /\ fs # <<>> => fs[Len(fs)] \notin {"name", "upper"}

Decls == {fs \in UNION {[1..k -> ParamForms] : k \in 0..MaxParams} : ValidParams(fs)}

\* the text of the declaration from the "(" that _FUNC_RE ends with
RECURSIVE param_list(_, _)
param_list(fs, k) ==
    IF k > Len(fs) THEN <<>>
    ELSE param(fs[k], k) \o (IF k < Len(fs) THEN <<",", Sp>> ELSE <<>>)
         \o param_list(fs, k + 1)

content_of(fs) == <<"(">> \o param_list(fs, 1) \o <<")", Sp, "{", "}">>

\* token.strip().split(): the words between the blanks
RECURSIVE split_blank(_, _)
split_blank(tok, word) ==
    IF tok = <<>> THEN (IF word = <<>> THEN <<>> ELSE <<word>>)
    ELSE IF Head(tok) = Sp
         THEN (IF word = <<>> THEN <<>> ELSE <<word>>) \o split_blank(Tail(tok), <<>>)
    ELSE split_blank(Tail(tok), Append(word, Head(tok)))

\* sig_text.split(","): the tokens between the commas
RECURSIVE split_comma(_, _)
split_comma(text, tok) ==
    IF text = <<>> THEN <<tok>>
    ELSE IF Head(text) = ","
         THEN <<tok>> \o split_comma(Tail(text), <<>>)
    ELSE split_comma(Tail(text), Append(tok, Head(text)))

\* str.isidentifier() and name[0].islower() of a word
isidentifier(word) == word # <<>> /\ \A k \in DOMAIN word : word[k] \in Idents
islower_first(word) == word # <<>> /\ word[1] \in LowerIdents

\* the name one token contributes, if any (lines 39-59)
param_names(tok) ==
    LET parts == split_blank(tok, <<>>)
    IN  IF parts = <<>> THEN <<>>
        ELSE IF Len(parts) = 1
             THEN (IF islower_first(parts[1]) /\ isidentifier(parts[1])
                   THEN <<parts[1]>> ELSE <<>>)
        ELSE (IF isidentifier(parts[1]) THEN <<parts[1]>> ELSE <<>>)

RECURSIVE names_of(_)
names_of(toks) ==
    IF toks = <<>> THEN <<>>
    ELSE param_names(Head(toks)) \o names_of(Tail(toks))

\* _extract_params_from_sig
extract_params_from_sig(sig_text) == names_of(split_comma(sig_text, <<>>))

InitParamsIdle ==
    /\ decl = <<>>
    /\ ppc = "idle"
    /\ cursor = 0
    /\ depth = 0
    /\ param_text = <<>>
    /\ params = <<>>

\* lines 109-119: _FUNC_RE matched up to the "(" at content_of(decl)[1]
MatchFunc ==
    /\ ppc = "match"
    /\ cursor' = 2
    /\ depth' = 1
    /\ ppc' = "parens"
    /\ UNCHANGED <<decl, param_text, params>>
    /\ UNCHANGED <<fixvars, depvars, extvars, unvars, restvars>>

\* lines 120-125: one step of the parenthesis scan
ScanParen ==
    /\ ppc = "parens"
    /\ cursor <= Len(content_of(decl)) /\ depth > 0
    /\ depth' = CASE content_of(decl)[cursor] = "(" -> depth + 1
                  [] content_of(decl)[cursor] = ")" -> depth - 1
                  [] OTHER -> depth
    /\ cursor' = cursor + 1
    /\ UNCHANGED <<decl, ppc, param_text, params>>
    /\ UNCHANGED <<fixvars, depvars, extvars, unvars, restvars>>

\* lines 126-130: the scan is over; the text between the parentheses goes to
\* _extract_params_from_sig
ExtractParams ==
    /\ ppc = "parens"
    /\ ~(cursor <= Len(content_of(decl)) /\ depth > 0)
    /\ depth = 0
    /\ param_text' = SubSeq(content_of(decl), 2, cursor - 2)
    /\ params' = extract_params_from_sig(SubSeq(content_of(decl), 2, cursor - 2))
    /\ ppc' = "done"
    /\ UNCHANGED <<decl, cursor, depth>>
    /\ UNCHANGED <<fixvars, depvars, extvars, unvars, restvars>>

NextParams ==
    \/ MatchFunc
    \/ ScanParen
    \/ ExtractParams

(* ---------------- extractors.py: the end of a function ---------------- *)

\* the lines between the header and the closing brace of the function
MaxFuncLines == 3

\* body lines of a function: statements, blocks, and string, raw-string
\* literals that hold brace characters
F_plain     == <<Tab, "x", ":=", "1">>
F_open      == <<Tab, "if", "x", "{">>
F_close     == <<Tab, "}">>
F_str_close == <<Tab, "s", ":=", DQ, "}", DQ>>
F_str_open  == <<Tab, "s", ":=", DQ, "{", DQ>>
F_str_pair  == <<Tab, "s", ":=", DQ, "{", "}", DQ>>
F_raw_close == <<Tab, "s", ":=", BQ, "}", BQ>>
F_header    == <<"func", "F", "(", ")", "{">>
F_end       == <<"}">>

FuncAlphabet == {F_plain, F_open, F_close, F_str_close, F_str_open,
                 F_str_pair, F_raw_close}

\* the depth of the blocks of Go after a line, as the Go grammar counts it:
\* a brace between two quotes or two backticks of the line opens nothing
RECURSIVE go_depth_from(_, _, _, _)
go_depth_from(l, pos, d, quote) ==
    IF pos > Len(l) THEN d
    ELSE IF quote # "" THEN
        go_depth_from(l, pos + 1, d, IF l[pos] = quote THEN "" ELSE quote)
    ELSE IF l[pos] \in {DQ, BQ} THEN go_depth_from(l, pos + 1, d, l[pos])
    ELSE IF l[pos] = "{" THEN go_depth_from(l, pos + 1, d + 1, "")
    ELSE IF l[pos] = "}" THEN go_depth_from(l, pos + 1, d - 1, "")
    ELSE go_depth_from(l, pos + 1, d, "")

RECURSIVE go_balanced(_, _)
go_balanced(body, d) ==
    IF body = <<>> THEN d = 0
    ELSE LET after == go_depth_from(Head(body), 1, d, "")
         IN  after >= 0 /\ go_balanced(Tail(body), after)

RECURSIVE FuncBodies(_)
FuncBodies(n) ==
    IF n = 0 THEN {<<>>}
    ELSE FuncBodies(n - 1)
         \cup {Append(b, l) : b \in {c \in FuncBodies(n - 1) : Len(c) = n - 1},
                              l \in FuncAlphabet}

\* the files: one function of Go whose blocks are balanced
FuncFiles ==
    {<<F_header>> \o b \o <<F_end>> : b \in {c \in FuncBodies(MaxFuncLines) : go_balanced(c, 0)}}

\* lines 79-85 of _find_matching_brace on the characters of one line from
\* column pos on: the depth after the line, and whether line 85 returned
RECURSIVE scan_braces(_, _, _)
scan_braces(l, pos, d) ==
    IF pos > Len(l) THEN [depth |-> d, returned |-> FALSE]
    ELSE IF l[pos] = "{" THEN scan_braces(l, pos + 1, d + 1)
    ELSE IF l[pos] = "}" THEN
        IF d - 1 = 0 THEN [depth |-> 0, returned |-> TRUE]
        ELSE scan_braces(l, pos + 1, d - 1)
    ELSE scan_braces(l, pos + 1, d)

\* rest.find("{"): the column of the first brace after the parameter list
brace_col(l) == Min({i \in DOMAIN l : l[i] = "{"})

\* line_offset: the line of the one match of _FUNC_RE in the file
func_line(lines) == Min({i \in DOMAIN lines : lines[i] # <<>> /\ Head(lines[i]) = "func"})

\* _find_matching_brace(lines, start_line, start_col), NoLine for None
RECURSIVE find_matching_brace(_, _, _, _)
find_matching_brace(lines, i, col, d) ==
    IF i > Len(lines) THEN NoLine
    ELSE IF scan_braces(lines[i], col, d).returned THEN i
    ELSE find_matching_brace(lines, i + 1, 1, scan_braces(lines[i], col, d).depth)

\* struct declarations, for the files the structural phase reads
T_struct  == <<"type", "Config", "struct", "{">>
T_field   == <<Tab, "Name", "string", BQ, "json", BQ>>
T_embed   == <<Tab, "*", "User">>
T_comment == <<Tab, "//", "note">>

\* type names: \w+ tokens that start with a capital letter
TypeNames == {"Config", "User", "Name"}

\* _STRUCT_RE = ^type\s+(\w+)\s+struct\s*\{ : the lines it matches
struct_lines(lines) ==
    SeqFilter([i \in 1..Len(lines) |-> i],
              {i \in DOMAIN lines :
                  /\ Len(lines[i]) >= 4
                  /\ lines[i][1] = "type"
                  /\ lines[i][2] \in TypeNames \cup Words
                  /\ lines[i][3] = "struct"
                  /\ lines[i][4] = "{"})

\* lines 226-241: the parts of a field line, <<>> when the line is passed over
field_parts(line) ==
    LET field_line == strip(line)
        comment == {k \in DOMAIN field_line : field_line[k] = "//"}
        no_comment == IF comment # {} /\ Min(comment) > 1
                      THEN SubSeq(field_line, 1, Min(comment) - 1) ELSE field_line
        tag == {k \in DOMAIN no_comment : no_comment[k] = BQ}
        no_tag == IF tag # {} /\ Min(tag) > 1
                  THEN SubSeq(no_comment, 1, Min(tag) - 1) ELSE no_comment
    IN  IF field_line = <<>> \/ Head(field_line) = "//" THEN <<>> ELSE no_tag

\* lines 243-252 for the lines between the braces: the names of one kind,
\* "fields" or "embedded"; a part is a name with the "*" before it
RECURSIVE struct_members(_, _, _, _)
struct_members(lines, i, last, kind) ==
    IF i > last \/ i > Len(lines) THEN <<>>
    ELSE LET parts == SeqFilter(field_parts(lines[i]), TypeNames \cup Words)
             here == IF parts = <<>> THEN <<>>
                     ELSE IF Len(parts) = 1
                     THEN IF kind = "embedded" /\ parts[1] \in TypeNames
                          THEN <<parts[1]>> ELSE <<>>
                     ELSE IF kind = "fields" THEN <<parts[1]>> ELSE <<>>
         IN  here \o struct_members(lines, i + 1, last, kind)

\* lines 212-271: the ClassInfo of every struct whose braces match
RECURSIVE extract_structs(_, _)
extract_structs(lines, starts) ==
    IF starts = <<>> THEN <<>>
    ELSE LET start_line == Head(starts)
             end == find_matching_brace(lines, start_line, 4, 0)
         IN  (IF end = NoLine THEN <<>>
              ELSE <<[name |-> lines[start_line][2],
                      line |-> start_line,
                      loc |-> end - start_line + 1,
                      attributes |-> struct_members(lines, start_line + 1, end - 1, "fields"),
                      base_classes |-> struct_members(lines, start_line + 1, end - 1,
                                                      "embedded")]>>)
             \o extract_structs(lines, Tail(starts))

(* ------------------- extractors.py: _normalize_go_body ----------------- *)

\* the lines of a body handed to _normalize_go_body
MaxNormLines == 3

\* tokens that start with fmt.Print, log.Print, log.Fatal or log.Panic
LogCalls == {"fmt.Print", "fmt.Println", "log.Printf", "log.Fatal", "log.Panicln"}

\* blanks are explicit tokens in these lines
Blanks == {Tab, Sp}

N_empty   == <<>>
N_blank   == <<Tab, Sp>>
N_code    == <<Tab, "x", "++">>
N_comment == <<Tab, "//", Sp, "c">>
N_trail   == <<Tab, "x", "++", Sp, "//", Sp, "c">>
N_trailws == <<Tab, "x", "++", Sp>>
N_log     == <<Tab, "log.Printf", "(", ")">>
N_logc    == <<"fmt.Println", "(", ")", Sp, "//", "c">>
N_url     == <<"u", "=", DQ, "http:", "//", "h", DQ>>
N_nolog   == <<"x", "=", "log.Fatal", "(", ")">>

NormAlphabet == {N_empty, N_blank, N_code, N_comment, N_trail, N_trailws,
                 N_log, N_logc, N_url, N_nolog}

RECURSIVE NormBodies(_)
NormBodies(n) ==
    IF n = 0 THEN {<<>>}
    ELSE NormBodies(n - 1)
         \cup {Append(b, l) : b \in {c \in NormBodies(n - 1) : Len(c) = n - 1},
                              l \in NormAlphabet}

RECURSIVE py_lstrip(_)
py_lstrip(l) == IF l # <<>> /\ Head(l) \in Blanks THEN py_lstrip(Tail(l)) ELSE l

RECURSIVE py_rstrip(_)
py_rstrip(l) ==
    IF l # <<>> /\ l[Len(l)] \in Blanks THEN py_rstrip(SubSeq(l, 1, Len(l) - 1)) ELSE l

py_strip(l) == py_rstrip(py_lstrip(l))

\* lines 184-185 without the rstrip
cut_comment_keeping_blanks(stripped) ==
    LET at == {i \in DOMAIN stripped : stripped[i] = "//"}
    IN  IF at # {} /\ Min(at) > 1 THEN SubSeq(stripped, 1, Min(at) - 1)
        ELSE stripped

\* lines 183-185: stripped[:comment_idx].rstrip() when find("//") > 0
cut_comment(stripped) ==
    LET at == {i \in DOMAIN stripped : stripped[i] = "//"}
    IN  IF at # {} /\ Min(at) > 1 THEN py_rstrip(SubSeq(stripped, 1, Min(at) - 1))
        ELSE stripped

\* lines 176-191 for one line: the line appended to normalized, or NoText
\* when the line is dropped
normalize_line(line) ==
    LET stripped == py_strip(line)
    IN  IF stripped = <<>> THEN NoText
        ELSE IF Head(stripped) = "//" THEN NoText
        ELSE LET cut == cut_comment(stripped)
             IN  IF cut # <<>> /\ Head(cut) \in LogCalls THEN NoText
                 ELSE IF cut # <<>> THEN cut
                 ELSE NoText

\* _normalize_go_body: the lines of the returned text
RECURSIVE normalize_go_body(_)
normalize_go_body(body) ==
    IF body = <<>> THEN <<>>
    ELSE LET n == normalize_line(Head(body))
         IN  (IF n = NoText THEN <<>> ELSE <<n>>) \o normalize_go_body(Tail(body))

InitExtIdle ==
    /\ flines = <<>>
    /\ epc = "idle"
    /\ brace_i = NoLine
    /\ brace_depth = 0
    /\ end_line = NoLine
    /\ func_loc = NoLine
    /\ norm_in = <<>>
    /\ norm_out = <<>>
    /\ fread = "ok"
    /\ structs = None

\* lines 132-144: the opening brace is on the header line; the search starts
FindOpeningBrace ==
    /\ epc = "func"
    /\ fread = "ok"
    /\ brace_i' = func_line(flines)
    /\ brace_depth' = 0
    /\ epc' = "brace"
    /\ UNCHANGED <<flines, end_line, func_loc, norm_in, norm_out, fread, structs>>
    /\ UNCHANGED <<fixvars, depvars, parvars, unvars, restvars>>

\* lines 76-85: one line of the search
ScanBraceLine ==
    /\ epc = "brace"
    /\ brace_i <= Len(flines)
    /\ LET col_start == IF brace_i = func_line(flines)
                        THEN brace_col(flines[brace_i]) ELSE 1
           r == scan_braces(flines[brace_i], col_start, brace_depth)
       IN  /\ brace_depth' = r.depth
           /\ IF r.returned
              THEN /\ end_line' = brace_i
                   /\ epc' = "found"
                   /\ UNCHANGED brace_i
              ELSE /\ brace_i' = brace_i + 1
                   /\ UNCHANGED <<end_line, epc>>
    /\ UNCHANGED <<flines, func_loc, norm_in, norm_out, fread, structs>>
    /\ UNCHANGED <<fixvars, depvars, parvars, unvars, restvars>>

\* line 86 and lines 145-146: no closing brace, the function is passed over
NoMatchingBrace ==
    /\ epc = "brace"
    /\ brace_i > Len(flines)
    /\ end_line' = NoLine
    /\ epc' = "skipped"
    /\ UNCHANGED <<flines, brace_i, brace_depth, func_loc, norm_in, norm_out, fread, structs>>
    /\ UNCHANGED <<fixvars, depvars, parvars, unvars, restvars>>

\* lines 148-165: the FunctionInfo
ReportFunction ==
    /\ epc = "found"
    /\ func_loc' = end_line + 1 - func_line(flines)
    /\ norm_in' = SubSeq(flines, func_line(flines), end_line)
    /\ norm_out' = <<normalize_go_body(SubSeq(flines, func_line(flines), end_line))>>
    /\ epc' = "done"
    /\ UNCHANGED <<flines, brace_i, brace_depth, end_line, fread, structs>>
    /\ UNCHANGED <<fixvars, depvars, parvars, unvars, restvars>>

\* lines 101-103: _read_file returned None, no function is extracted
NoFunctionsUnreadable ==
    /\ epc = "func"
    /\ fread = "error"
    /\ epc' = "empty"
    /\ UNCHANGED <<flines, brace_i, brace_depth, end_line, func_loc, norm_in, norm_out,
                   fread, structs>>
    /\ UNCHANGED <<fixvars, depvars, parvars, unvars, restvars>>

\* _extract_structs_regex on a file that _read_file returns
ExtractStructs ==
    /\ structs = None
    /\ fread = "ok"
    /\ structs' = extract_structs(flines, struct_lines(flines))
    /\ UNCHANGED <<flines, epc, brace_i, brace_depth, end_line, func_loc, norm_in,
                   norm_out, fread>>
    /\ UNCHANGED <<fixvars, depvars, parvars, unvars, restvars>>

\* lines 205-207: _read_file returned None, no struct is extracted
NoStructsUnreadable ==
    /\ structs = None
    /\ fread = "error"
    /\ structs' = <<>>
    /\ UNCHANGED <<flines, epc, brace_i, brace_depth, end_line, func_loc, norm_in,
                   norm_out, fread>>
    /\ UNCHANGED <<fixvars, depvars, parvars, unvars, restvars>>

NextFunc ==
    \/ FindOpeningBrace
    \/ ScanBraceLine
    \/ NoMatchingBrace
    \/ ReportFunction

\* _normalize_go_body applied to a body
NormalizeBody ==
    /\ epc = "normalize"
    /\ norm_out = <<>>
    /\ norm_out' = <<normalize_go_body(norm_in)>>
    /\ UNCHANGED <<flines, epc, brace_i, brace_depth, end_line, func_loc, norm_in,
                   fread, structs>>
    /\ UNCHANGED <<fixvars, depvars, parvars, unvars, restvars>>

\* _normalize_go_body applied to its own result
NormalizeAgain ==
    /\ epc = "normalize"
    /\ Len(norm_out) = 1
    /\ norm_out' = Append(norm_out, normalize_go_body(norm_out[1]))
    /\ UNCHANGED <<flines, epc, brace_i, brace_depth, end_line, func_loc, norm_in,
                   fread, structs>>
    /\ UNCHANGED <<fixvars, depvars, parvars, unvars, restvars>>

NextNormalize ==
    \/ NormalizeBody
    \/ NormalizeAgain

(* ------------------------ detectors/unused.py -------------------------- *)

\* the lines of a.go, drawn exhaustively from UnusedAlphabet
MaxUnusedLines == 1

\* the lines the tool writes to stderr
MaxDiags == 2

U_discard   == <<Tab, "_", "=", "doSomething", "(", ")">>
U_short     == <<Tab, "x", ":=", "doSomething", "(", ")">>
U_blank_def == <<Tab, "_", ":=", "doSomething", "(", ")">>
U_for       == <<"for", "_", "=", "range", "items">>
U_for_call  == <<Tab, "for", "_", "=", "range", "fn", "(", ")", "{">>
U_two       == <<Tab, "_", ",", "_", "=", "fn", "(", ")">>
U_value     == <<Tab, "_", "=", "x">>
U_comment   == <<Tab, "//", "_", "=", "doSomething", "(", ")">>

UnusedAlphabet == {U_discard, U_short, U_blank_def, U_for, U_for_call, U_two,
                   U_value, U_comment}

RECURSIVE ULines(_)
ULines(n) ==
    IF n = 0 THEN {<<>>}
    ELSE ULines(n - 1)
         \cup {Append(b, l) : b \in {c \in ULines(n - 1) : Len(c) = n - 1},
                              l \in UnusedAlphabet}

UnusedProjects ==
    {[f \in Files |-> IF f = "a.go" THEN la ELSE lb] :
        la \in ULines(MaxUnusedLines), lb \in {<<>>, <<U_discard>>, <<U_value>>}}

\* what subprocess.run does: it returns, or it raises TimeoutExpired,
\* FileNotFoundError or another OSError
VetOutcomes == {"completed", "timeout", "not_found", "os_error"}

\* the lines of stderr: three diagnostics and a line that line_pattern
\* does not match
V_import == [file |-> "a.go", line |-> 1, message |-> "imported and not used"]
V_var    == [file |-> "b.go", line |-> 2, message |-> "unused variable"]
V_other  == [file |-> "a.go", line |-> 3, message |-> "self-assignment"]
V_header == [file |-> NoName, line |-> NoLine, message |-> "# example.com/app"]

VetLines == {V_import, V_var, V_other, V_header}

Stderrs == UNION {[1..k -> VetLines] : k \in 0..MaxDiags}

Categories == {"all", "ignored_error", "unused_import"}

\* _categorise_vet_message
categorise_vet_message(message) ==
    CASE message = "imported and not used" -> "unused_import"
      [] message = "unused variable"       -> "unused_var"
      [] OTHER                             -> "other"

\* lines 56-83 of _try_go_vet: one entry per line that line_pattern matches
\* (no --exclude pattern is configured: _extra_exclusions is empty)
RECURSIVE vet_entries(_)
vet_entries(err) ==
    IF err = <<>> THEN <<>>
    ELSE LET v == Head(err)
         IN  (IF v.file = NoName THEN <<>>
              ELSE <<[file |-> v.file, line |-> v.line, name |-> v.message,
                      category |-> categorise_vet_message(v.message)]>>)
             \o vet_entries(Tail(err))

\* ignored_err_re = ^\s*(_\s*(?:,\s*_\s*)*)=\s*\w+ matched on the stripped line
RECURSIVE after_blank_ids(_, _)
after_blank_ids(l, pos) ==
    IF pos + 1 <= Len(l) /\ l[pos] = "," /\ l[pos + 1] = "_"
    THEN after_blank_ids(l, pos + 2)
    ELSE pos

ignored_err_re_match(stripped) ==
    /\ stripped # <<>>
    /\ Head(stripped) = "_"
    /\ LET e == after_blank_ids(stripped, 2)
       IN  e + 1 <= Len(stripped) /\ stripped[e] = "=" /\ stripped[e + 1] \in Words

\* lines 133-152: the fallback flags the line
regex_flags(line) ==
    LET stripped == strip(line)
    IN  /\ stripped # <<>>
        /\ Head(stripped) # "//"
        /\ ~(Len(stripped) >= 2 /\ Head(stripped) = "for")
        /\ ignored_err_re_match(stripped)
        /\ \A i \in DOMAIN stripped : stripped[i] # ":="

\* lines 133-152 for one readable file
regex_file_entries(f, lines) ==
    LET hits == SeqFilter([i \in 1..Len(lines) |-> i],
                          {i \in 1..Len(lines) : regex_flags(lines[i])})
    IN  [k \in 1..Len(hits) |->
            [file |-> f, line |-> hits[k], name |-> strip(lines[hits[k]]),
             category |-> "ignored_error"]]

\* lines 26-27
RECURSIVE of_category(_, _)
of_category(es, cat) ==
    IF es = <<>> THEN <<>>
    ELSE (IF Head(es).category = cat THEN <<Head(es)>> ELSE <<>>)
         \o of_category(Tail(es), cat)

InitUnusedIdle ==
    /\ go_binary = FALSE
    /\ gomod_here = FALSE
    /\ vet_outcome = "not_found"
    /\ vet_stderr = <<>>
    /\ usrc = [f \in Files |-> <<>>]
    /\ ulocked = {}
    /\ category = "all"
    /\ upc = "idle"
    /\ uentries = None
    /\ regex_ran = FALSE
    /\ utodo = <<>>
    /\ usmells = <<>>

\* lines 38-39 of _try_go_vet
Which ==
    /\ upc = "which"
    /\ IF go_binary THEN upc' = "go_mod" ELSE upc' = "fallback"
    /\ UNCHANGED <<go_binary, gomod_here, vet_outcome, vet_stderr, usrc, ulocked,
                   category, uentries, regex_ran, utodo, usmells>>
    /\ UNCHANGED <<fixvars, depvars, parvars, extvars, restvars>>

\* lines 41-43
GoModExists ==
    /\ upc = "go_mod"
    /\ IF gomod_here THEN upc' = "run" ELSE upc' = "fallback"
    /\ UNCHANGED <<go_binary, gomod_here, vet_outcome, vet_stderr, usrc, ulocked,
                   category, uentries, regex_ran, utodo, usmells>>
    /\ UNCHANGED <<fixvars, depvars, parvars, extvars, restvars>>

\* the tool ran, but an empty list of diagnostics counts as no result
RunGoVet_falling_back_when_empty ==
    /\ upc = "run"
    /\ vet_outcome = "completed"
    /\ IF vet_entries(vet_stderr) = <<>>
       THEN upc' = "fallback" /\ UNCHANGED uentries
       ELSE upc' = "filter" /\ uentries' = vet_entries(vet_stderr)
    /\ UNCHANGED <<go_binary, gomod_here, vet_outcome, vet_stderr, usrc, ulocked,
                   category, regex_ran, utodo, usmells>>
    /\ UNCHANGED <<fixvars, depvars, parvars, extvars, restvars>>

\* lines 45-85: the tool ran; its diagnostics are the entries
RunGoVet ==
    /\ upc = "run"
    /\ vet_outcome = "completed"
    /\ uentries' = vet_entries(vet_stderr)
    /\ upc' = "filter"
    /\ UNCHANGED <<go_binary, gomod_here, vet_outcome, vet_stderr, usrc, ulocked,
                   category, regex_ran, utodo, usmells>>
    /\ UNCHANGED <<fixvars, depvars, parvars, extvars, restvars>>

\* lines 53-54: subprocess.run raised
RunGoVetFails ==
    /\ upc = "run"
    /\ vet_outcome # "completed"
    /\ upc' = "fallback"
    /\ UNCHANGED <<go_binary, gomod_here, vet_outcome, vet_stderr, usrc, ulocked,
                   category, uentries, regex_ran, utodo, usmells>>
    /\ UNCHANGED <<fixvars, depvars, parvars, extvars, restvars>>

\* lines 23-24 of detect_unused and lines 112-114 of _detect_unused_regex
StartRegex ==
    /\ upc = "fallback"
    /\ uentries = None
    /\ regex_ran' = TRUE
    /\ uentries' = <<>>
    /\ utodo' = FileOrder
    /\ upc' = "regex"
    /\ UNCHANGED <<go_binary, gomod_here, vet_outcome, vet_stderr, usrc, ulocked,
                   category, usmells>>
    /\ UNCHANGED <<fixvars, depvars, parvars, extvars, restvars>>

\* lines 116-152 for a file that read_text returns
RegexFile ==
    /\ upc = "regex"
    /\ utodo # <<>>
    /\ Head(utodo) \notin ulocked
    /\ uentries' = uentries \o regex_file_entries(Head(utodo), usrc[Head(utodo)])
    /\ utodo' = Tail(utodo)
    /\ UNCHANGED <<go_binary, gomod_here, vet_outcome, vet_stderr, usrc, ulocked,
                   category, upc, regex_ran, usmells>>
    /\ UNCHANGED <<fixvars, depvars, parvars, extvars, restvars>>

\* the fallback stops at the first file it cannot read
RegexFileUnreadable_and_stop ==
    /\ upc = "regex"
    /\ utodo # <<>>
    /\ Head(utodo) \in ulocked
    /\ utodo' = <<>>
    /\ UNCHANGED <<go_binary, gomod_here, vet_outcome, vet_stderr, usrc, ulocked,
                   category, upc, uentries, regex_ran, usmells>>
    /\ UNCHANGED <<fixvars, depvars, parvars, extvars, restvars>>

\* lines 117-124: read_text raised OSError or UnicodeDecodeError
RegexFileUnreadable ==
    /\ upc = "regex"
    /\ utodo # <<>>
    /\ Head(utodo) \in ulocked
    /\ utodo' = Tail(utodo)
    /\ UNCHANGED <<go_binary, gomod_here, vet_outcome, vet_stderr, usrc, ulocked,
                   category, upc, uentries, regex_ran, usmells>>
    /\ UNCHANGED <<fixvars, depvars, parvars, extvars, restvars>>

\* line 154: the fallback returns
RegexDone ==
    /\ upc = "regex"
    /\ utodo = <<>>
    /\ upc' = "filter"
    /\ UNCHANGED <<go_binary, gomod_here, vet_outcome, vet_stderr, usrc, ulocked,
                   category, uentries, regex_ran, utodo, usmells>>
    /\ UNCHANGED <<fixvars, depvars, parvars, extvars, restvars>>

\* lines 26-29 of detect_unused
FilterCategory ==
    /\ upc = "filter"
    /\ uentries' = IF category # "all" THEN of_category(uentries, category)
                   ELSE uentries
    /\ upc' = "done"
    /\ UNCHANGED <<go_binary, gomod_here, vet_outcome, vet_stderr, usrc, ulocked,
                   category, regex_ran, utodo, usmells>>
    /\ UNCHANGED <<fixvars, depvars, parvars, extvars, restvars>>

NextUnused ==
    \/ Which
    \/ GoModExists
    \/ RunGoVet
    \/ RunGoVetFails
    \/ StartRegex
    \/ RegexFile
    \/ RegexFileUnreadable
    \/ RegexDone
    \/ FilterCategory

\* detect_smells on the same files: smell_counts["ignored_error"]
DetectIgnoredError ==
    /\ upc # "idle"
    /\ usmells = None
    /\ usmells' = smell_matches("ignored_error", usrc, ulocked, FileOrder)
    /\ UNCHANGED <<go_binary, gomod_here, vet_outcome, vet_stderr, usrc, ulocked,
                   category, upc, uentries, regex_ran, utodo>>
    /\ UNCHANGED <<fixvars, depvars, parvars, extvars, restvars>>

(* ---------------------------- specifications --------------------------- *)

vars == <<fixvars, depvars, parvars, extvars, unvars, restvars>>

\* a fixer run by its caller, with I/O faults
Init == InitFix /\ InitDepsIdle /\ InitParamsIdle /\ InitExtIdle /\ InitUnusedIdle /\ InitRestIdle
Next == NextFix
Spec == Init /\ [][Next]_vars

\* detect followed by fix, repeatedly, on one file and without I/O faults
InitIdem ==
    /\ fixer \in Fixers
    /\ disk \in SingleFileProjects(fixer, MaxBody)
    /\ InitRest
    /\ InitDepsIdle /\ InitParamsIdle /\ InitExtIdle /\ InitUnusedIdle /\ InitRestIdle

NextIdem ==
    \/ StartFix(FALSE, FALSE)
    \/ Transform
    \/ WriteTmp
    \/ Replace
    \/ Return

SpecIdem == InitIdem /\ [][NextIdem]_vars

InitFixIdle ==
    /\ fixer = "error-wrap"
    /\ disk = [f \in Files |-> <<>>]
    /\ InitRest

\* build_dep_graph on a scanned tree
InitDeps ==
    /\ tree \in Trees
    /\ gomod \in GoModStates
    /\ locked \in {l \in SUBSET (DOMAIN tree \cap SourceFiles) : Cardinality(l) <= MaxLocked}
    /\ dpc = "start"
    /\ module_path = NoModule
    /\ files = <<>>
    /\ todo = <<>>
    /\ pkg_to_files = <<>>
    /\ file_to_pkg = <<>>
    /\ graph = <<>>
    /\ InitFixIdle /\ InitParamsIdle /\ InitExtIdle /\ InitUnusedIdle /\ InitRestIdle

SpecDeps == InitDeps /\ [][NextDeps]_vars

\* the parameter list of one valid function declaration
InitParams ==
    /\ decl \in Decls
    /\ ppc = "match"
    /\ cursor = 0
    /\ depth = 0
    /\ param_text = <<>>
    /\ params = <<>>
    /\ InitFixIdle /\ InitDepsIdle /\ InitExtIdle /\ InitUnusedIdle /\ InitRestIdle

SpecParams == InitParams /\ [][NextParams]_vars

\* the end of one function whose blocks are balanced
InitFunc ==
    /\ flines \in FuncFiles
    /\ epc = "func"
    /\ brace_i = NoLine
    /\ brace_depth = 0
    /\ end_line = NoLine
    /\ func_loc = NoLine
    /\ norm_in = <<>>
    /\ norm_out = <<>>
    /\ fread = "ok"
    /\ structs = None
    /\ InitFixIdle /\ InitDepsIdle /\ InitParamsIdle /\ InitUnusedIdle /\ InitRestIdle

SpecFunc == InitFunc /\ [][NextFunc]_vars

\* _normalize_go_body applied twice
InitNormalize ==
    /\ flines = <<>>
    /\ epc = "normalize"
    /\ brace_i = NoLine
    /\ brace_depth = 0
    /\ end_line = NoLine
    /\ func_loc = NoLine
    /\ norm_in \in NormBodies(MaxNormLines)
    /\ norm_out = <<>>
    /\ fread = "ok"
    /\ structs = None
    /\ InitFixIdle /\ InitDepsIdle /\ InitParamsIdle /\ InitUnusedIdle /\ InitRestIdle

SpecNormalize == InitNormalize /\ [][NextNormalize]_vars

\* detect_unused and detect_smells on one project
InitUnused ==
    /\ go_binary \in BOOLEAN
    /\ gomod_here \in BOOLEAN
    /\ vet_outcome \in VetOutcomes
    /\ vet_stderr \in IF go_binary /\ gomod_here /\ vet_outcome = "completed"
                      THEN Stderrs ELSE {<<>>}
    /\ usrc \in UnusedProjects
    /\ ulocked \in {l \in SUBSET Files : Cardinality(l) <= MaxLocked}
    /\ category \in Categories
    /\ upc = "which"
    /\ uentries = None
    /\ regex_ran = FALSE
    /\ utodo = <<>>
    /\ usmells = None
    /\ InitFixIdle /\ InitDepsIdle /\ InitParamsIdle /\ InitExtIdle /\ InitRestIdle

NextUnusedAndSmells ==
    \/ NextUnused
    \/ DetectIgnoredError

SpecUnused == InitUnused /\ [][NextUnusedAndSmells]_vars

\* one scan of a project: the phases of the Go plugin in their order
\* (lang/go/__init__.py, phases), each on files some of which cannot be read

\* go is missing; go.mod is missing; the call times out; the tool runs
ScanEnvs == {<<FALSE, FALSE, "not_found">>, <<TRUE, FALSE, "not_found">>,
             <<TRUE, TRUE, "timeout">>, <<TRUE, TRUE, "completed">>}

\* the file the extractors are given: a struct and a function
ScanFiles ==
    {<<T_struct, T_field, T_embed, T_comment, F_end, F_header, F_plain, F_end>>,
     <<T_struct, T_field, F_end, F_header, F_str_open, F_end>>}

\* the trees whose files import at most the package lib
ScanTrees ==
    {t \in TreesOn(SourceFiles, SourceFiles) :
        \A f \in SourceFiles :
            t[f] \in {<<>>, <<import_decl("single", <<ModulePath \o <<"lib">>>>)>>}}

InitScan ==
    /\ \E e \in ScanEnvs :
          /\ go_binary = e[1]
          /\ gomod_here = e[2]
          /\ vet_outcome = e[3]
          /\ vet_stderr = IF e[3] = "completed" THEN <<V_import>> ELSE <<>>
    /\ usrc \in {p \in UnusedProjects : p["a.go"] \in {<<>>, <<U_discard>>}}
    /\ ulocked \in {l \in SUBSET Files : Cardinality(l) <= MaxLocked}
    /\ category = "all"
    /\ upc = "which"
    /\ uentries = None
    /\ regex_ran = FALSE
    /\ utodo = <<>>
    /\ usmells = None
    /\ flines \in ScanFiles
    /\ fread \in {"ok", "error"}
    /\ epc = "func"
    /\ brace_i = NoLine
    /\ brace_depth = 0
    /\ end_line = NoLine
    /\ func_loc = NoLine
    /\ norm_in = <<>>
    /\ norm_out = <<>>
    /\ structs = None
    /\ tree \in ScanTrees
    /\ gomod = "here"
    /\ locked \in {l \in SUBSET SourceFiles : Cardinality(l) <= MaxLocked}
    /\ dpc = "start"
    /\ module_path = NoModule
    /\ files = <<>>
    /\ todo = <<>>
    /\ pkg_to_files = <<>>
    /\ file_to_pkg = <<>>
    /\ graph = <<>>
    /\ InitFixIdle /\ InitParamsIdle /\ InitRestIdle

\* _phase_unused, _phase_structural, _phase_coupling, _phase_smells and the
\* function extraction of the duplicates phase
PhaseUnused     == NextUnused
PhaseStructural == upc = "done" /\ (ExtractStructs \/ NoStructsUnreadable)
PhaseCoupling   == structs # None /\ NextDeps
PhaseSmells     == dpc = "done" /\ DetectIgnoredError
PhaseDupes      == usmells # None /\ (NextFunc \/ NoFunctionsUnreadable)

NextScan ==
    \/ PhaseUnused
    \/ PhaseStructural
    \/ PhaseCoupling
    \/ PhaseSmells
    \/ PhaseDupes

SpecScan == InitScan /\ [][NextScan]_vars

(* ------------------- properties of the fixer framework ----------------- *)

\* the completed calls of the history
Calls == DOMAIN hist

\* the entry list names every file by one key only
DistinctFiles(es) ==
    \A i, j \in DOMAIN es : resolve(es[i].file) = resolve(es[j].file) => es[i].file = es[j].file

\* a dry call and a real call that were given the same files, the same
\* entries and the same read failures, and both returned
SameInputs(i, j) ==
    /\ hist[i].dry /\ ~hist[j].dry
    /\ hist[i].start = hist[j].start
    /\ hist[i].entries = hist[j].entries
    /\ hist[i].unread = hist[j].unread
    /\ hist[i].outcome = "returned" /\ hist[j].outcome = "returned"

\* a dry run leaves every file as it was and creates no temporary file
DryRunTouchesNothing ==
    /\ (dry_run /\ pc # "idle") => (disk = start /\ \A f \in Files : tmp[f] = "absent")
    /\ \A i \in Calls : hist[i].dry => hist[i].end = hist[i].start

InWriteBlock == pc \in {"write", "replace", "cleanup", "reraise"}

\* C2: a changed file is written to a temporary sibling that is then renamed
\* over the original: a file's content changes only in the rename, and then
\* to the complete new content; when the write or the rename raises, the
\* temporary file is removed, the exception is raised again and the original
\* file still holds the complete content that was read.
C2_AtomicWrite ==
    [][ /\ \A f \in Files :
              disk'[f] # disk[f] =>
                  /\ pc = "replace" /\ ~dry_run
                  /\ f = cur_path
                  /\ tmp[f] = "complete"
                  /\ disk'[f] = new_content
        /\ (InWriteBlock' /\ pc' # "write") =>
              (pc \in {"write", "replace", "cleanup"} /\ disk' = disk)
        /\ pc' = "reraise" =>
              /\ exc' \in ExcKinds
              /\ tmp'[resolve(Head(queue'))] = "absent"
              /\ disk'[resolve(Head(queue'))] = original'
        /\ pc = "reraise" =>
              IF exc = "OSError" THEN skipped' = Append(skipped, cur_key)
              ELSE /\ Len(hist') = Len(hist) + 1
                   /\ hist'[Len(hist')].outcome = exc
      ]_vars

\* the exception is about to be raised again after a partial temporary file
\* was removed, and the original file holds what was read
C2_Witness ==
    /\ pc = "reraise"
    /\ exc = "KeyboardInterrupt"
    /\ tmp[cur_path] = "absent"
    /\ disk[cur_path] = original
    /\ original # new_content

\* a call that ran detect first, read and wrote every file and returned
CleanRealCall(i) ==
    /\ ~hist[i].dry
    /\ hist[i].outcome = "returned"
    /\ hist[i].skipped = <<>>
    /\ hist[i].entries = detect_entries(fixer, hist[i].start, {})

\* C3: once detect followed by fix (dry_run=False) has been applied, a
\* second detect followed by fix returns no change records and leaves every
\* file as it is, for each of the five fixers.
C3_SecondFixChangesNothing ==
    \A i \in Calls :
        (i > 1 /\ CleanRealCall(i - 1) /\ CleanRealCall(i)
               /\ hist[i].start = hist[i - 1].end)
            => (hist[i].results = <<>> /\ hist[i].end = hist[i].start)

C5_FailureContained ==
    /\ (pc = "loop") => (visited \o queue = sorted_keys(entries))
    /\ (pc = "reraise" /\ exc = "OSError") =>
          (queue # <<>> /\ visited \o Tail(queue) = sorted_keys(entries))
    /\ \A k \in unread : k \in Range(skipped)
    /\ \A i \in Calls :
          /\ hist[i].outcome # "OSError"
          /\ hist[i].outcome = "returned" =>
                hist[i].visited = sorted_keys(hist[i].entries)

\* a call that skipped its first file and went on to change a later one
C5_Witness ==
    \E i \in Calls :
        /\ hist[i].outcome = "returned"
        /\ Len(hist[i].skipped) = 1
        /\ Len(hist[i].visited) > 1
        /\ hist[i].visited[1] = hist[i].skipped[1]
        /\ hist[i].end # hist[i].start


(* ------------------- properties of the dependency graph ---------------- *)

\* the non-test source files under the scan path, outside vendor and testdata
Discovered == {f \in DOMAIN tree : ~is_excluded(f) /\ ~is_test_file(f)}

\* the files of the local package an import path names
PackageFiles(imp) ==
    {f \in Discovered : pkg_path(parse_module_path(gomod), f) = imp}

\* the import paths the text of a file declares
Declares(f) ==
    UNION {Range(tree[f][k].paths) : k \in DOMAIN tree[f]}

\* the outgoing edges a file has into the package of an import path
EdgesFor(f, imp) == graph[f].imports \cap PackageFiles(imp)

\* file f imports the local package imp, which has K files, f not among them
ImportsLocal(f, imp, K) ==
    /\ imp \in Declares(f)
    /\ Cardinality(PackageFiles(imp)) = K /\ K > 0
    /\ f \notin PackageFiles(imp)

\* C6 as stated: when a file imports a local package that has K non-test
\* source files, the importer not being one of them, the importer gets
\* exactly K outgoing edges for that import, one to each file of the package.
C6_KEdgesAnyImporter ==
    dpc = "done" =>
        \A f \in Discovered, imp \in ImportPaths, K \in 1..Cardinality(SourceFiles) :
            ImportsLocal(f, imp, K) =>
                (EdgesFor(f, imp) = PackageFiles(imp) /\ Cardinality(EdgesFor(f, imp)) = K)

\* C6: when a file whose content can be read imports a local package that
\* has K non-test source files, the importer not being one of them, the
\* importer gets exactly K outgoing edges for that import, one to each file
\* of the package; a file that cannot be read is a node without outgoing edges.
C6_KEdges ==
    dpc = "done" =>
        /\ \A f \in Discovered \ locked, imp \in ImportPaths,
                 K \in 1..Cardinality(SourceFiles) :
              ImportsLocal(f, imp, K) =>
                  (EdgesFor(f, imp) = PackageFiles(imp) /\ Cardinality(EdgesFor(f, imp)) = K)
        /\ \A f \in Discovered \cap locked :
              f \in DOMAIN graph /\ graph[f].imports = {}

\* a readable file imports a package of two files and has its two edges
C6_Witness ==
    /\ dpc = "done"
    /\ \E f \in Discovered \ locked, imp \in ImportPaths :
          /\ ImportsLocal(f, imp, 2)
          /\ Cardinality(graph[f].imports) = 2

\* C7: in the graph build_dep_graph returns, for all files a and b, b is in
\* a's imports set if and only if a is in b's importers set.
C7_EdgeSetsConsistent ==
    dpc = "done" =>
        \A a \in DOMAIN graph, b \in DOMAIN graph :
            b \in graph[a].imports <=> a \in graph[b].importers

\* a returned graph with two edges into one file
C7_Witness ==
    /\ dpc = "done"
    /\ \E b \in DOMAIN graph : Cardinality(graph[b].importers) = 2

\* C8: the nodes of the returned graph are exactly the discovered non-test
\* source files; every edge endpoint is a node, and every edge leads to a
\* file of a local package its source imports, so that an import that
\* matches no local package creates neither a node nor an edge.
C8_NodesAreDiscoveredFiles ==
    dpc = "done" =>
        /\ DOMAIN graph = Discovered
        /\ \A f \in DOMAIN graph :
              /\ graph[f].imports \subseteq DOMAIN graph
              /\ graph[f].importers \subseteq DOMAIN graph
              /\ \A t \in graph[f].imports :
                    \E imp \in Declares(f) : t \in PackageFiles(imp)

\* a returned graph of a tree with a test file, whose main.go imports a
\* package that is not local next to one that is
C8_Witness ==
    /\ dpc = "done"
    /\ "lib/a_test.go" \in DOMAIN tree
    /\ "main.go" \in DOMAIN graph
    /\ <<"fmt">> \in Declares("main.go")
    /\ PackageFiles(<<"fmt">>) = {}
    /\ graph["main.go"].imports # {}

\* C9: when go.mod is found neither at the scan path nor in a parent
\* directory, the returned graph has one isolated node per discovered file
\* and no edges at all, whatever the files import.
C9_NoModuleNoEdges ==
    (dpc = "done" /\ gomod = "none") =>
        /\ DOMAIN graph = Discovered
        /\ \A f \in DOMAIN graph : graph[f].imports = {} /\ graph[f].importers = {}

(* ------------------- properties of the source extractor ---------------- *)

\* C10: for every valid function declaration with N top-level
\* comma-separated parameters, the extracted parameter list has length N.
C10_ParamCount ==
    ppc = "done" => Len(params) = Len(decl)



(* ------------------------ properties of extractors --------------------- *)

\* C11: function extraction finds the end of a function by brace depth and
\* ignores the braces inside string and raw-string literals: for a function
\* whose blocks are balanced the function is reported, its end line is the
\* line of its closing brace and its line count is the number of its lines,
\* whatever braces its string literals hold.
C11_StringBracesIgnored ==
    epc \in {"done", "skipped"}
        => (epc = "done" /\ end_line = Len(flines) /\ func_loc = Len(flines))

\* C12: body normalization is idempotent: for every body b,
\* _normalize_go_body(_normalize_go_body(b)) = _normalize_go_body(b).
C12_NormalizeIdempotent ==
    Len(norm_out) = 2 => norm_out[2] = norm_out[1]

\* a body whose first normalization dropped or cut something and kept a line
C12_Witness ==
    /\ epc = "normalize"
    /\ Len(norm_out) = 2
    /\ norm_out[1] # norm_in
    /\ norm_out[1] # <<>>

(* ---------------------- properties of detect_unused -------------------- *)

\* the tool was found, go.mod is at the path and the call returned
tool_ran == go_binary /\ gomod_here /\ vet_outcome = "completed"

\* the entries of the regex heuristic for the files that can be read
RECURSIVE heuristic_entries(_)
heuristic_entries(order) ==
    IF order = <<>> THEN <<>>
    ELSE (IF Head(order) \in ulocked THEN <<>>
          ELSE regex_file_entries(Head(order), usrc[Head(order)]))
         \o heuristic_entries(Tail(order))

\* the category argument applied to a list of entries
wanted(es) == IF category = "all" THEN es ELSE of_category(es, category)

\* C13: detect_unused uses the diagnostics of the external tool whenever the
\* tool ran, also when it reported nothing, and then never runs the regex
\* heuristic; when the go binary is missing, no go.mod exists at the path, or
\* the call times out or fails to launch, it returns the entries of the regex
\* heuristic and raises no error: every call goes on until it returns.
C13_VetElseHeuristic ==
    /\ (upc = "done" /\ tool_ran)
          => (~regex_ran /\ uentries = wanted(vet_entries(vet_stderr)))
    /\ (upc = "done" /\ ~tool_ran)
          => (regex_ran /\ uentries = wanted(heuristic_entries(FileOrder)))
    /\ upc \notin {"idle", "done"} => ENABLED NextUnused

\* the tool ran and reported nothing on files the heuristic would flag
C13_Witness ==
    /\ upc = "done"
    /\ tool_ran
    /\ vet_entries(vet_stderr) = <<>>
    /\ wanted(heuristic_entries(FileOrder)) # <<>>
    /\ uentries = <<>>

\* the regex fallback has returned and its ignored_error entries were kept
fallback_returned ==
    upc = "done" /\ regex_ran /\ category \in {"all", "ignored_error"}

\* line i of file f is among the entries of the fallback
in_fallback(f, i) ==
    \E k \in DOMAIN uentries :
        /\ uentries[k].file = f
        /\ uentries[k].line = i
        /\ uentries[k].category = "ignored_error"

\* line i of file f is among the ignored_error matches of detect_smells
in_smells(f, i) ==
    \E k \in DOMAIN usmells : usmells[k].file = f /\ usmells[k].line = i

\* C14: in both the regex fallback of detect_unused and the ignored_error
\* smell check, a line `_ = doSomething()` is flagged ignored_error, and the
\* lines `x := doSomething()`, `_ := doSomething()` and `for _ = range items`
\* are never flagged.
C14_IgnoredErrorLines ==
    \A f \in Files \ ulocked : \A i \in DOMAIN usrc[f] :
        /\ fallback_returned =>
              /\ usrc[f][i] = U_discard => in_fallback(f, i)
              /\ usrc[f][i] \in {U_short, U_blank_def, U_for} => ~in_fallback(f, i)
        /\ usmells # None =>
              /\ usrc[f][i] = U_discard => in_smells(f, i)
              /\ usrc[f][i] \in {U_short, U_blank_def, U_for} => ~in_smells(f, i)

\* both checks have run on a discarded result and on a line of another form
C14_Witness ==
    /\ fallback_returned
    /\ usmells # None
    /\ ulocked = {}
    /\ usrc["a.go"] = <<U_for>>
    /\ usrc["b.go"] = <<U_discard>>
    /\ in_fallback("b.go", 1) /\ in_smells("b.go", 1)
    /\ Len(uentries) = 1 /\ Len(usmells) = 1

(* ----------------------- properties of the fixers ---------------------- *)

\* the error check at line n returns fmt.Errorf("<name>: %w", err), on the
\* line of the if or on the next line that is not blank
returns_wrapped(lines, n, name) ==
    LET j == next_non_blank(lines, n + 1)
    IN  \/ \E p \in 1..Len(lines[n]) : OccursAt(wrapped_return(name), lines[n], p)
        \/ j <= Len(lines) /\ lstrip(lines[j]) = wrapped_return(name)

\* C15: the single-line form `if err != nil { return err }` and the
\* three-line block form are both detected as empty_error_check, and
\* fix_error_wrap rewrites every detected occurrence so that it returns
\* fmt.Errorf("<name>: %w", err), <name> being the name of the enclosing
\* function or method.
C15_EveryCheckWrapped ==
    \A i \in Calls :
        (fixer = "error-wrap" /\ CleanRealCall(i)) =>
            \A f \in Files :
                /\ \A n \in DOMAIN hist[i].start[f] :
                      (\/ lstrip(hist[i].start[f][n]) = lstrip(W_single)
                       \/ /\ n + 2 <= Len(hist[i].start[f])
                          /\ SubSeq(hist[i].start[f], n, n + 2) = <<W_if, W_ret, W_close>>)
                          => n \in Range(detect_empty_error_check(hist[i].start[f]))
                /\ \A n \in Range(detect_empty_error_check(hist[i].start[f])) :
                      find_enclosing_func(hist[i].start[f], n) # NoName
                          => returns_wrapped(hist[i].end[f], n,
                                             find_enclosing_func(hist[i].start[f], n))

\* the lines of a file that detect_smells flags with a smell
flagged(id, lines) == Range(file_smell_lines(id, lines))

\* no error string of the line starts with a capital letter or ends with a
\* period
error_strings_normal(l) ==
    /\ error_string_format_at(l) = {}
    /\ \A p \in 1..(Len(l) - 2) :
          (l[p] \in ErrorCtors /\ l[p + 1] = "(" /\ l[p + 2] = DQ
                /\ closing_quote(l, p + 2) # 0)
              => l[closing_quote(l, p + 2) - 1] # "."

\* C16: fix_error_strings changes only the lines flagged error_string_format:
\* on each flagged line the first letter of the error string is lowercased
\* and its trailing terminal punctuation is removed, and every other line,
\* error strings that already start lowercase included, is left untouched.
C16_OnlyFlaggedNormalized ==
    \A i \in Calls :
        (fixer = "error-strings" /\ CleanRealCall(i)) =>
            \A f \in Files :
                /\ Len(hist[i].end[f]) = Len(hist[i].start[f])
                /\ \A n \in DOMAIN hist[i].start[f] :
                      IF n \in flagged("error_string_format", hist[i].start[f])
                      THEN error_strings_normal(hist[i].end[f][n])
                      ELSE hist[i].end[f][n] = hist[i].start[f][n]

\* the flagged lines of a file that fix_regex_hoist can move: pattern-compile
\* assignments with an enclosing for statement
hoistable(lines) ==
    {n \in flagged("regex_in_loop", lines) :
        REGEX_ASSIGN_RE_match(lines[n]) /\ find_enclosing_for(lines, n) # NoLine}

\* the lines of a file without those at the positions drop
without(lines, drop) ==
    LET keep == SeqFilter([k \in 1..Len(lines) |-> k], DOMAIN lines \ drop)
    IN  [k \in 1..Len(keep) |-> lines[keep[k]]]

\* C17: fix_regex_hoist moves a flagged pattern-compile assignment out of the
\* loop body to the line immediately above the enclosing for statement,
\* indented like the for statement and keeping the variable name, so that the
\* usages inside the loop body still refer to the same variable, and no other
\* line of the loop changes: after the fix each flagged assignment stands,
\* with the indentation of its for statement, immediately above that for
\* statement, and the remaining lines are the lines of the file before the
\* fix without the flagged assignments.
C17_HoistedAboveFor ==
    \A i \in Calls :
        (fixer = "regex-hoist" /\ CleanRealCall(i)) =>
            \A f \in Files :
                LET before == hist[i].start[f]
                    after == hist[i].end[f]
                    hoisted(n) == hoist_line(before[find_enclosing_for(before, n)], before[n])
                    moved == {p \in DOMAIN after :
                                 \E n \in hoistable(before) :
                                     /\ after[p] = hoisted(n)
                                     /\ p + 1 <= Len(after)
                                     /\ after[p + 1] = before[find_enclosing_for(before, n)]}
                IN  /\ \A n \in hoistable(before) : \E p \in moved : after[p] = hoisted(n)
                    /\ without(after, moved) = without(before, hoistable(before))

\* the flagged lines of a file that fix_string_builder can rewrite:
\* `s += expr` lines with an enclosing for statement
concatenations(lines) ==
    {n \in flagged("string_concat_loop", lines) :
        CONCAT_RE_match(lines[n]) /\ find_enclosing_for(lines, n) # NoLine}

builder_declaration(l) == lstrip(l) = <<"var", "sb", "strings.Builder">>

final_assignment(l) ==
    Len(lstrip(l)) = 5 /\ SubSeq(lstrip(l), 2, 5) = <<"=", "sb.String", "(", ")">>

\* the write to the builder that replaces the line `s += expr`
builder_write(l) ==
    indent_of(l) \o <<"sb.WriteString", "(">> \o SubSeq(lstrip(l), 3, Len(lstrip(l)))
        \o <<")">>

\* a file that holds no line of the builder pattern yet
no_builder(lines) ==
    \A n \in DOMAIN lines : ~builder_declaration(lines[n]) /\ ~final_assignment(lines[n])

\* C18: fix_string_builder declares exactly one builder per for loop on the
\* line immediately before the for statement, replaces every flagged
\* `s += expr` of that loop by a write to the builder, and inserts the
\* assignment of the final value to s on the line immediately after the
\* closing brace of the loop, also when the loop holds several flagged
\* concatenations.
C18_OneBuilderPerLoop ==
    \A i \in Calls :
        (fixer = "string-builder" /\ CleanRealCall(i)) =>
            \A f \in {g \in Files : no_builder(hist[i].start[g])} :
                LET before == hist[i].start[f]
                    after == hist[i].end[f]
                    loops == {find_enclosing_for(before, n) : n \in concatenations(before)}
                    decls == {p \in DOMAIN after : builder_declaration(after[p])}
                    assigns == {p \in DOMAIN after : final_assignment(after[p])}
                    rest == without(after, decls \cup assigns)
                IN  /\ Cardinality(decls) = Cardinality(loops)
                    /\ \A p \in decls :
                          /\ p + 1 <= Len(after)
                          /\ FOR_RE_match(after[p + 1])
                          /\ indent_of(after[p]) = indent_of(after[p + 1])
                          /\ LET loop_end == find_loop_end(after, {}, p + 1, 0, FALSE)
                             IN  loop_end <= Len(after) => (loop_end + 1) \in assigns
                    /\ Len(rest) = Len(before)
                    /\ \A n \in DOMAIN before :
                          rest[n] = IF n \in concatenations(before)
                                    THEN builder_write(before[n]) ELSE before[n]

\* the by-value parameters `name sync.Mutex` of a line
by_value_mutexes(l) == {k \in 2..Len(l) : l[k] = "sync.Mutex" /\ l[k - 1] \in Words}

\* the line without its pointer signs
without_stars(l) == without(l, {k \in DOMAIN l : l[k] = "*"})

\* C19: on each flagged line fix_mutex_pointer turns every by-value
\* `name sync.Mutex` parameter into `name *sync.Mutex` and leaves the
\* parameters that are `*sync.Mutex` already unchanged: after the fix the
\* line has no by-value mutex parameter, one pointer sign more for each one
\* it had, and is otherwise the same.
C19_EveryValueMutexPointer ==
    \A i \in Calls :
        (fixer = "mutex-pointer" /\ CleanRealCall(i)) =>
            \A f \in Files :
                /\ Len(hist[i].end[f]) = Len(hist[i].start[f])
                /\ \A n \in flagged("mutex_copy", hist[i].start[f]) :
                      /\ by_value_mutexes(hist[i].end[f][n]) = {}
                      /\ without_stars(hist[i].end[f][n]) = without_stars(hist[i].start[f][n])
                      /\ Count(hist[i].end[f][n], "*")
                            = Count(hist[i].start[f][n], "*")
                                + Cardinality(by_value_mutexes(hist[i].start[f][n]))

(* ------------------- properties of a scan of a project ----------------- *)

\* the records of a list that name the file f
RECURSIVE of_file(_, _)
of_file(es, f) ==
    IF es = <<>> THEN <<>>
    ELSE (IF Head(es).file = f THEN <<Head(es)>> ELSE <<>>) \o of_file(Tail(es), f)

\* the files a readable file of the tree has edges to: the other files of
\* the local packages it imports
LocalTargets(f) ==
    UNION {PackageFiles(imp) \ {f} : imp \in Declares(f)}

\* the structural phase can take a step: the file is read and
\* ExtractStructs, which is total, runs, or NoStructsUnreadable is enabled
structural_enabled ==
    upc = "done" /\ ((structs = None /\ fread = "ok") \/ ENABLED NoStructsUnreadable)

\* the last phase has returned
scan_over == epc \in {"done", "skipped", "empty"}

\* C20: a source file that cannot be read or decoded contributes nothing: it
\* yields no functions, no structs, no smell matches, no discarded-result
\* entries and no outgoing import edges, and the extractors, detect_smells,
\* the fallback of detect_unused and build_dep_graph go on with the remaining
\* files without raising, so that every readable file contributes what it
\* contributes when all files can be read.
C20_UnreadableContributesNothing ==
    /\ (upc = "done" /\ regex_ran) =>
          \A f \in Files :
              of_file(uentries, f) = IF f \in ulocked THEN <<>>
                                     ELSE regex_file_entries(f, usrc[f])
    /\ usmells # None =>
          \A f \in Files :
              Len(of_file(usmells, f)) = IF f \in ulocked THEN 0
                                         ELSE Len(file_smell_lines("ignored_error", usrc[f]))
    /\ (structs # None /\ fread = "error") => structs = <<>>
    /\ (structs # None /\ fread = "ok") => structs # <<>>
    /\ (epc # "func" /\ fread = "error") => (epc = "empty" /\ func_loc = NoLine)
    /\ dpc = "done" =>
          \A f \in Discovered :
              /\ f \in DOMAIN graph
              /\ graph[f].imports = IF f \in locked THEN {} ELSE LocalTargets(f)
    /\ ~scan_over => \/ ENABLED PhaseUnused
                      \/ structural_enabled
                      \/ ENABLED PhaseCoupling
                      \/ ENABLED PhaseSmells
                      \/ ENABLED PhaseDupes

\* a scan that is over, on files that have something to contribute and of
\* which one could not be read in every phase
C20_Witness ==
    /\ scan_over
    /\ ulocked = {"a.go"}
    /\ usrc["a.go"] # <<>> /\ regex_flags(usrc["a.go"][1])
    /\ regex_ran
    /\ of_file(uentries, "b.go") # <<>>
    /\ of_file(usmells, "b.go") # <<>>
    /\ fread = "error"
    /\ structs = <<>>
    /\ locked = {"main.go"}
    /\ LocalTargets("main.go") # {}
    /\ graph["main.go"].imports = {}
    /\ graph["lib/a.go"].imports # {}

(* ------------- extractors.py: the declarations of one file ------------- *)

\* the declarations of one file
MaxDecls == 3

\* a function, a method with a nested block, a function with a block that is
\* never closed, a function whose parameter list is never closed, a struct,
\* and a struct that is never closed
DeclKinds == {"func", "method", "func_brace", "func_paren", "struct", "struct_brace"}
WellFormedFuncs == {"func", "method"}
WellFormedStructs == {"struct"}

D_func       == <<"func", "F", "(", "x", "int", ")", "{">>
D_method     == <<"func", "(", "s", "*", "T", ")", "F", "(", ")", "{">>
D_func_paren == <<"func", "F", "(", "x", "int", "{">>

decl_text(kind) ==
    CASE kind = "func"         -> <<D_func, F_plain, F_end>>
      [] kind = "method"       -> <<D_method, F_open, F_close, F_end>>
      [] kind = "func_brace"   -> <<D_func, F_open, F_end>>
      [] kind = "func_paren"   -> <<D_func_paren, F_plain, F_end>>
      [] kind = "struct"       -> <<T_struct, T_field, F_end>>
      [] kind = "struct_brace" -> <<T_struct, T_field>>

\* the text of a file, and the line its k-th declaration starts at
RECURSIVE file_of(_)
file_of(kinds) ==
    IF kinds = <<>> THEN <<>> ELSE decl_text(Head(kinds)) \o file_of(Tail(kinds))

decl_start(kinds, k) == Len(file_of(SubSeq(kinds, 1, k - 1))) + 1

DeclFiles == UNION {[1..n -> DeclKinds] : n \in 1..MaxDecls}

\* a position of the content that does not exist
NoPos == <<>>

\* _FUNC_RE on one line: the column of the "(" the match ends with, 0 without
\* a match; the receiver group is "(", characters other than ")", and ")"
func_match(l) ==
    IF Len(l) < 3 \/ l[1] # "func" THEN 0
    ELSE IF l[2] = "("
    THEN LET closing == {k \in 4..Len(l) : l[k] = ")"}
         IN  IF closing = {} THEN 0
             ELSE LET k == Min(closing)
                  IN  IF k + 2 <= Len(l) /\ l[k + 1] \in Words \cup TypeNames \cup {"F"}
                         /\ l[k + 2] = "("
                      THEN k + 2 ELSE 0
    ELSE IF l[2] \in Words \cup TypeNames \cup {"F"} /\ l[3] = "(" THEN 3 ELSE 0

\* lines 118-125: the scan for the ")" of the parameter list, over the lines
\* from a position on; the position after the ")" or NoPos when depth stays
\* above 0 to the end of the content
RECURSIVE paren_end(_, _, _, _)
paren_end(lines, i, col, d) ==
    IF d = 0 THEN <<i, col>>
    ELSE IF i > Len(lines) THEN NoPos
    ELSE IF col > Len(lines[i]) THEN paren_end(lines, i + 1, 1, d)
    ELSE paren_end(lines, i, col + 1,
                   CASE lines[i][col] = "(" -> d + 1
                     [] lines[i][col] = ")" -> d - 1
                     [] OTHER -> d)

\* lines 132-135: rest.find("{") from a position on, NoPos for -1
RECURSIVE first_brace(_, _, _)
first_brace(lines, i, col) ==
    IF i > Len(lines) THEN NoPos
    ELSE IF col > Len(lines[i]) THEN first_brace(lines, i + 1, 1)
    ELSE IF lines[i][col] = "{" THEN <<i, col>>
    ELSE first_brace(lines, i, col + 1)

\* lines 109-146 for the match on line i: the FunctionInfo, or none after one
\* of the three continue statements
function_at(lines, i) ==
    LET after == paren_end(lines, i, func_match(lines[i]) + 1, 1)
        brace == IF after = NoPos THEN NoPos ELSE first_brace(lines, after[1], after[2])
        end == IF brace = NoPos THEN NoLine
               ELSE find_matching_brace(lines, brace[1], brace[2], 0)
    IN  IF end = NoLine THEN <<>>
        ELSE <<[line |-> i, end_line |-> end, loc |-> end + 1 - i]>>

\* the loop of line 109 left at the first declaration that is passed over
RECURSIVE extract_functions_until_unbalanced(_, _)
extract_functions_until_unbalanced(lines, i) ==
    IF i > Len(lines) THEN <<>>
    ELSE IF func_match(lines[i]) = 0 THEN extract_functions_until_unbalanced(lines, i + 1)
    ELSE IF function_at(lines, i) = <<>> THEN <<>>
    ELSE function_at(lines, i) \o extract_functions_until_unbalanced(lines, i + 1)

\* _extract_functions_regex: the loop of line 109 over the matches of _FUNC_RE
RECURSIVE extract_functions(_, _)
extract_functions(lines, i) ==
    IF i > Len(lines) THEN <<>>
    ELSE IF func_match(lines[i]) = 0 THEN extract_functions(lines, i + 1)
    ELSE function_at(lines, i) \o extract_functions(lines, i + 1)

\* extract_go_functions that gives up at the first declaration passed over
extract_go_functions_until_unbalanced(lines) ==
    extract_functions_until_unbalanced(lines, 1)

\* extract_go_functions of the lines of a file
extract_go_functions(lines) ==
    extract_functions(lines, 1)

\* extract_go_functions on a file that _read_file returns
ExtractFunctions ==
    /\ declarations # <<>>
    /\ functions = None
    /\ fread = "ok"
    /\ functions' = extract_go_functions(flines)
    /\ UNCHANGED declarations
    /\ UNCHANGED <<corevars, panicvars, cfgvars, cachevars, countvars, tailvars>>

\* extract_go_structs on the same file
ExtractStructsOfFile ==
    /\ declarations # <<>>
    /\ ExtractStructs

NextDecls ==
    \/ ExtractFunctions
    \/ ExtractStructsOfFile

\* both extractors on one file of up to MaxDecls declarations
InitDecls ==
    /\ declarations \in DeclFiles
    /\ functions = None
    /\ flines = file_of(declarations)
    /\ epc = "idle"
    /\ brace_i = NoLine
    /\ brace_depth = 0
    /\ end_line = NoLine
    /\ func_loc = NoLine
    /\ norm_in = <<>>
    /\ norm_out = <<>>
    /\ fread = "ok"
    /\ structs = None
    /\ InitFixIdle /\ InitDepsIdle /\ InitParamsIdle /\ InitUnusedIdle /\ InitPanicIdle /\ InitCfgIdle
    /\ InitCacheIdle /\ InitCountIdle /\ InitTailIdle

SpecDecls == InitDecls /\ [][NextDecls]_vars

\* the declarations of the kinds ks, as the extractors report one: the line
\* it starts at and the number of its lines
declared(ks) ==
    {[line |-> decl_start(declarations, k), loc |-> Len(decl_text(declarations[k]))] :
        k \in {j \in DOMAIN declarations : declarations[j] \in ks}}

reported(infos) == {[line |-> infos[k].line, loc |-> infos[k].loc] : k \in DOMAIN infos}

\* C21: a declaration whose parentheses or braces never balance is in the
\* result of neither extractor, and every well-formed declaration of the file
\* is in the result, with its own lines, whatever stands before or after it
C21_UnbalancedOmitted ==
    /\ functions # None => reported(functions) = declared(WellFormedFuncs)
    /\ structs # None => reported(structs) = declared(WellFormedStructs)

\* both extractors have run on a file that begins with a declaration that
\* never balances and goes on with a well-formed function and struct, and
\* each has reported the well-formed one
C21_Witness ==
    /\ functions # None /\ structs # None
    /\ Len(declarations) = 3
    /\ declarations[1] \in {"func_brace", "func_paren", "struct_brace"}
    /\ declarations[2] = "func" /\ declarations[3] = "struct"
    /\ Len(functions) = 1 /\ Len(structs) = 1

(* ------------------- smells.py: the panic_in_lib check ------------------ *)

\* the lines after the package clause
MaxPanicLines == 2

\* file names, and the names a package clause can hold
FileNames == {"lib.go", "main.go", "lib_test.go"}
PackageNames == {"main", "mylib", "mainframe"}

\* the names that begin with the characters of "main"
MainPrefixed == {"main", "mainframe"}

P_call    == <<Tab, "panic", "(", DQ, "oh", DQ, ")">>
P_comment == <<Tab, "//", "panic", "(", "x", ")">>
P_string  == <<Tab, "s", ":=", DQ, "panic", "(", DQ>>
P_plain   == <<Tab, "x", ":=", "1">>
P_note    == <<"//", "used", "by", "package", "main">>

PanicAlphabet == {P_call, P_comment, P_string, P_plain, P_note}

RECURSIVE PanicBodies(_)
PanicBodies(n) ==
    IF n = 0 THEN {<<>>}
    ELSE PanicBodies(n - 1)
         \cup {Append(b, l) : b \in {c \in PanicBodies(n - 1) : Len(c) = n - 1},
                              l \in PanicAlphabet}

\* a file: its package clause and the lines after it
PanicFiles == {<<<<"package", pk>>>> \o b : pk \in PackageNames, b \in PanicBodies(MaxPanicLines)}

\* line 313: "package main" in content, the characters "package main"
\* anywhere in the text of the file
is_main(lines) ==
    \E i \in DOMAIN lines : \E k \in 1..(Len(lines[i]) - 1) :
        lines[i][k] = "package" /\ lines[i][k + 1] \in MainPrefixed

\* line 314: filepath.endswith("_test.go")
is_test(name) == name = "lib_test.go"

\* lines 312-342 for the panic_in_lib check of one file: the entries of the
\* flagged lines
panic_in_lib(name, lines) ==
    IF name = "main.go" \/ is_main(lines) \/ is_test(name) THEN <<>>
    ELSE LET ls == file_smell_lines("panic_in_lib", lines)
         IN  [i \in 1..Len(ls) |-> [file |-> name, line |-> ls[i]]]

\* detect_smells on the file
DetectPanic ==
    /\ pname # ""
    /\ panics = None
    /\ panics' = panic_in_lib(pname, plines)
    /\ UNCHANGED <<pname, plines>>
    /\ UNCHANGED <<corevars, declvars, cfgvars, cachevars, countvars, tailvars>>

InitPanic ==
    /\ pname \in FileNames
    /\ plines \in PanicFiles
    /\ panics = None
    /\ InitFixIdle /\ InitDepsIdle /\ InitParamsIdle /\ InitExtIdle /\ InitUnusedIdle
    /\ InitDeclIdle /\ InitCfgIdle /\ InitCacheIdle /\ InitCountIdle /\ InitTailIdle

SpecPanic == InitPanic /\ [][DetectPanic]_vars

\* the file has a panic( call that is neither in a string literal nor in a comment
has_panic_call(lines) == \E i \in DOMAIN lines : lines[i] = P_call

\* the package the file belongs to
package_of(lines) == lines[1][2]

\* C22: panic_in_lib is reported for a file if and only if the file has a
\* panic( call outside string literals and comments, is not named main.go,
\* does not belong to package main and is not a _test.go file
C22_PanicInLibIff ==
    panics # None =>
        (panics # <<>> <=> /\ has_panic_call(plines)
                           /\ pname # "main.go"
                           /\ package_of(plines) # "main"
                           /\ pname # "lib_test.go")

(* ----------------------- config.py: load_go_config --------------------- *)

\* the values of YAML and of Python the loader handles, by their type
Dict(f) == [t |-> "dict", v |-> f]
List(sq) == [t |-> "list", v |-> sq]
Scalar(x) == [t |-> "scalar", v |-> x]

\* GO_DEFAULTS (lines 10-29)
GO_DEFAULTS ==
    [zones |-> Dict([generated |-> List(<<"_gen.go", "_mock.go", "_string.go">>),
                     test |-> List(<<"/testutil/">>),
                     config |-> List(<<"Makefile", "Dockerfile">>),
                     script |-> List(<<"/tools/">>)]),
     entry_patterns |-> List(<<"main.go", "/cmd/", "_test.go", "/testdata/",
                               "/lambda/", "handler.go", "/migrations/",
                               ".pb.go", "_gen.go", "_mock.go", "doc.go">>),
     exclusions |-> List(<<"vendor", ".git", "testdata", "bin">>),
     boundaries |-> List(<<>>),
     thresholds |-> Dict([large_file |-> Scalar(500),
                          complexity |-> Scalar(20),
                          monster_function |-> Scalar(150)])]

\* lines 53-55: the items that are not in the list yet are appended
RECURSIVE extend(_, _)
extend(base, items) ==
    IF items = <<>> THEN base
    ELSE extend(IF Head(items) \in Range(base) THEN base ELSE Append(base, Head(items)),
                Tail(items))

\* the overrides a mapping can hold, key by key; a key that is left out has
\* no entry
Absent == [t |-> "absent"]
OverrideChoices ==
    [thresholds     |-> {Absent, Dict([large_file |-> Scalar(300)]),
                                 Dict([complexity |-> Scalar(10)])},
     exclusions     |-> {Absent, List(<<"dist">>), List(<<"vendor", "dist">>)},
     entry_patterns |-> {Absent, List(<<"/api/">>)},
     zones          |-> {Absent, Dict([test |-> List(<<"_test.go">>)])},
     extra          |-> {Absent, Scalar(1)}]

Mappings ==
    {[k \in {j \in DOMAIN c : c[j] # Absent} |-> c[k]] :
        c \in [thresholds : OverrideChoices.thresholds,
               exclusions : OverrideChoices.exclusions,
               entry_patterns : OverrideChoices.entry_patterns,
               zones : OverrideChoices.zones,
               extra : OverrideChoices.extra]}

\* what go.yaml can be: absent, unreadable, no YAML at all, YAML that is
\* empty, an empty list, a list, a plain word, or a mapping
YamlStates ==
    {[kind |-> k] : k \in {"absent", "unreadable", "syntax_error", "empty",
                           "empty_list", "list", "scalar"}}
    \cup {[kind |-> "mapping", overrides |-> m] : m \in Mappings}

\* content that cannot be parsed into a mapping of overrides
Malformed == {"syntax_error", "empty_list", "list", "scalar"}

\* _merge_config: the base after the call
RECURSIVE merge_config(_, _)
merge_config(base, overrides) ==
    [key \in DOMAIN base \cup DOMAIN overrides |->
        IF key \notin DOMAIN overrides THEN base[key]
        ELSE IF key \notin DOMAIN base THEN overrides[key]
        ELSE IF base[key].t = "dict" /\ overrides[key].t = "dict"
             THEN Dict(merge_config(base[key].v, overrides[key].v))
        ELSE IF base[key].t = "list" /\ overrides[key].t = "list"
             THEN List(extend(base[key].v, overrides[key].v))
        ELSE overrides[key]]

\* load_go_config (lines 32-42): what it returns, or the exception that
\* leaves it; yaml.safe_load(...) or {} is the overrides
load_go_config(y) ==
    CASE y.kind = "absent" -> [returned |-> GO_DEFAULTS, raised |-> ""]
      [] y.kind \in {"unreadable", "syntax_error"} -> [returned |-> GO_DEFAULTS, raised |-> ""]
      [] y.kind \in {"empty", "empty_list"} ->
            [returned |-> merge_config(GO_DEFAULTS, <<>>), raised |-> ""]
      [] y.kind \in {"list", "scalar"} -> [returned |-> <<>>, raised |-> "AttributeError"]
      [] y.kind = "mapping" ->
            [returned |-> merge_config(GO_DEFAULTS, y.overrides), raised |-> ""]

\* a caller loads the configuration of the repository
LoadGoConfig ==
    /\ config = None
    /\ config' = <<load_go_config(yaml)>>
    /\ UNCHANGED <<yaml, lang, used>>
    /\ UNCHANGED <<corevars, declvars, panicvars, cachevars, countvars, tailvars>>

\* GO_ENTRY_PATTERNS (lines 32-36 of lang/go/__init__.py)
GO_ENTRY_PATTERNS ==
    <<"main.go", "/cmd/", "_test.go", "/testdata/",
      "/lambda/", "handler.go", "/migrations/",
      ".pb.go", "_gen.go", "_mock.go", "doc.go">>

\* GoConfig.__init__ (lines 319-347): the attributes the phases read
GoConfigInit ==
    /\ lang = None
    /\ lang' = <<[entry_patterns |-> GO_ENTRY_PATTERNS,
                  large_threshold |-> 500,
                  complexity_threshold |-> 20]>>
    /\ UNCHANGED <<yaml, config, used>>
    /\ UNCHANGED <<corevars, declvars, panicvars, cachevars, countvars, tailvars>>

\* _phase_structural (lines 94-102): the thresholds handed to
\* detect_large_files and detect_complexity
PhaseStructuralThresholds ==
    /\ lang # None
    /\ used = None
    /\ used' = <<[large |-> lang[1].large_threshold,
                  complexity |-> lang[1].complexity_threshold]>>
    /\ UNCHANGED <<yaml, config, lang>>
    /\ UNCHANGED <<corevars, declvars, panicvars, cachevars, countvars, tailvars>>

NextConfig ==
    \/ LoadGoConfig
    \/ GoConfigInit
    \/ PhaseStructuralThresholds

InitConfig ==
    /\ yaml \in YamlStates
    /\ config = None
    /\ lang = None
    /\ used = None
    /\ InitFixIdle /\ InitDepsIdle /\ InitParamsIdle /\ InitExtIdle /\ InitUnusedIdle
    /\ InitDeclIdle /\ InitPanicIdle /\ InitCacheIdle /\ InitCountIdle /\ InitTailIdle

SpecConfig == InitConfig /\ [][NextConfig]_vars

\* C23: whenever go.yaml holds content that cannot be parsed into a mapping
\* of overrides, load_go_config raises nothing and returns the defaults
C23_MalformedGivesDefaults ==
    (config # None /\ yaml.kind \in Malformed) =>
        (config[1].raised = "" /\ config[1].returned = GO_DEFAULTS)

\* the configuration that results from the defaults and go.yaml
merged == load_go_config(yaml).returned

\* C24: the entry patterns and thresholds the Go configuration uses in a scan
\* are those of the merged per-repo configuration
C24_ScanUsesMergedConfig ==
    /\ (lang # None /\ load_go_config(yaml).raised = "") =>
            List(lang[1].entry_patterns) = merged.entry_patterns
    /\ (used # None /\ load_go_config(yaml).raised = "") =>
          /\ Scalar(used[1].large) = merged.thresholds.v.large_file
          /\ Scalar(used[1].complexity) = merged.thresholds.v.complexity

(* -------------- lang/go/__init__.py: the cached dependency graph ------- *)

\* line 145 has returned: line 146 assigns the graph to lang._dep_graph
CacheGraph ==
    /\ cpc = "coupling"
    /\ dpc = "done"
    /\ dep_cache' = <<graph>>
    /\ cache_log' = Append(cache_log, [op |-> "write", phase |-> "coupling"])
    /\ cpc' = "test_coverage"
    /\ UNCHANGED <<zone_map, tc_graph>>
    /\ UNCHANGED <<corevars, declvars, panicvars, cfgvars, countvars, tailvars>>

\* lines 232-234: without a zone map the phase returns at once
TestCoverageNoZoneMap ==
    /\ cpc = "test_coverage"
    /\ ~zone_map
    /\ cpc' = "smells"
    /\ UNCHANGED <<zone_map, dep_cache, cache_log, tc_graph>>
    /\ UNCHANGED <<corevars, declvars, panicvars, cfgvars, countvars, tailvars>>

\* line 236, lang._dep_graph is a graph with files: the phase works on it
TestCoverageCached ==
    /\ cpc = "test_coverage"
    /\ zone_map
    /\ dep_cache # None /\ DOMAIN dep_cache[1] # {}
    /\ cache_log' = Append(cache_log, [op |-> "read", phase |-> "test_coverage"])
    /\ tc_graph' = dep_cache
    /\ cpc' = "smells"
    /\ UNCHANGED <<zone_map, dep_cache>>
    /\ UNCHANGED <<corevars, declvars, panicvars, cfgvars, countvars, tailvars>>

\* line 236 with an assignment of the rebuilt graph to lang._dep_graph
TestCoverageRebuild_and_cache ==
    /\ cpc = "test_coverage"
    /\ zone_map
    /\ dep_cache = None \/ DOMAIN dep_cache[1] = {}
    /\ cache_log' = cache_log \o <<[op |-> "read", phase |-> "test_coverage"],
                                  [op |-> "write", phase |-> "test_coverage"]>>
    /\ tc_graph' = <<graph>>
    /\ dep_cache' = <<graph>>
    /\ cpc' = "smells"
    /\ UNCHANGED zone_map
    /\ UNCHANGED <<corevars, declvars, panicvars, cfgvars, countvars, tailvars>>

\* line 236, lang._dep_graph is None or a graph without files (both are false
\* for "or"): the phase works on what lang.build_dep_graph(path) returns for
\* the same tree and leaves lang._dep_graph as it is
TestCoverageRebuild ==
    /\ cpc = "test_coverage"
    /\ zone_map
    /\ dep_cache = None \/ DOMAIN dep_cache[1] = {}
    /\ cache_log' = Append(cache_log, [op |-> "read", phase |-> "test_coverage"])
    /\ tc_graph' = <<graph>>
    /\ cpc' = "smells"
    /\ UNCHANGED <<zone_map, dep_cache>>
    /\ UNCHANGED <<corevars, declvars, panicvars, cfgvars, countvars, tailvars>>

\* _phase_coupling up to line 146, then _phase_test_coverage
NextCache ==
    \/ cpc = "coupling" /\ NextDeps
    \/ CacheGraph
    \/ TestCoverageNoZoneMap
    \/ TestCoverageCached
    \/ TestCoverageRebuild

\* the trees of the scan, and a path without any .go file
CacheTrees == ScanTrees \cup TreesOn({}, {})

\* the scan has reached the coupling phase with lang._dep_graph unset
InitCache ==
    /\ tree \in CacheTrees
    /\ gomod = "here"
    /\ locked \in {l \in SUBSET (DOMAIN tree \cap SourceFiles) : Cardinality(l) <= MaxLocked}
    /\ dpc = "start"
    /\ module_path = NoModule
    /\ files = <<>>
    /\ todo = <<>>
    /\ pkg_to_files = <<>>
    /\ file_to_pkg = <<>>
    /\ graph = <<>>
    /\ zone_map \in BOOLEAN
    /\ dep_cache = None
    /\ cpc = "coupling"
    /\ cache_log = <<>>
    /\ tc_graph = None
    /\ InitFixIdle /\ InitParamsIdle /\ InitExtIdle /\ InitUnusedIdle
    /\ InitDeclIdle /\ InitPanicIdle /\ InitCfgIdle /\ InitCountIdle /\ InitTailIdle

SpecCache == InitCache /\ [][NextCache]_vars

writes(log) == {i \in DOMAIN log : log[i].op = "write"}
reads(log) == {i \in DOMAIN log : log[i].op = "read"}

\* C25: in one scan lang._dep_graph is written once, by the coupling phase
\* and before any phase reads it; the test-coverage phase reads it, works on
\* the graph the coupling phase built and writes nothing
C25_CacheWrittenOnce ==
    /\ Cardinality(writes(cache_log)) <= 1
    /\ \A i \in writes(cache_log) : cache_log[i].phase = "coupling"
    /\ \A i \in reads(cache_log) : \E j \in writes(cache_log) : j < i
    /\ cpc \in {"test_coverage", "smells"} =>
          /\ Cardinality(writes(cache_log)) = 1
          /\ dep_cache = <<graph>>
    /\ tc_graph # None => tc_graph = dep_cache

\* the test-coverage phase has read the graph of a project with files that
\* the coupling phase cached
C25_Witness ==
    /\ cpc = "smells"
    /\ zone_map
    /\ DOMAIN graph # {}
    /\ Len(cache_log) = 2
    /\ cache_log[1].op = "write" /\ cache_log[2].op = "read"
    /\ tc_graph = <<graph>>

(* ---------------- properties of the returned change records ------------ *)

\* C26: every change record a call with dry_run=False returns names a file
\* whose content on disk, when the call returns, is the transformed content,
\* and a file whose write failed is in no returned record
C26_RecordsNameWrittenFiles ==
    \A i \in Calls :
        (~hist[i].dry /\ hist[i].outcome = "returned" /\ DistinctFiles(hist[i].entries)) =>
            \A k \in DOMAIN hist[i].results :
                LET key == hist[i].results[k].file
                IN  /\ key \notin Range(hist[i].skipped)
                    /\ hist[i].end[resolve(key)] =
                          join(transform_fn(fixer, hist[i].start[resolve(key)],
                                            by_file(hist[i].entries, key)).lines)

\* the sequence sub is what is left of sq when some of its elements are dropped
RECURSIVE IsSubsequence(_, _)
IsSubsequence(sub, sq) ==
    IF sub = <<>> THEN TRUE
    ELSE IF sq = <<>> THEN FALSE
    ELSE IF Head(sub) = Head(sq) THEN IsSubsequence(Tail(sub), Tail(sq))
    ELSE IsSubsequence(sub, Tail(sq))

\* C27: when several flagged compile assignments lie in one file,
\* fix_regex_hoist applies each entry to the line the detector reported for
\* it: the change record of the file names every flagged assignment as
\* hoisted, and the lines that were not flagged stay in their order
C27_EntriesHitReportedLines ==
    \A i \in Calls :
        (fixer = "regex-hoist" /\ CleanRealCall(i)) =>
            \A f \in Files :
                LET before == hist[i].start[f]
                    after == hist[i].end[f]
                IN  /\ hoistable(before) # {} =>
                          \E k \in DOMAIN hist[i].results :
                              /\ hist[i].results[k].file = f
                              /\ Range(hist[i].results[k].removed) = hoistable(before)
                    /\ IsSubsequence(without(before, hoistable(before)), after)

(* ------------- the detect step of a fixer on many occurrences ---------- *)

\* the occurrences of a fixer's smell in one file
MaxOccurrences == 51

RECURSIVE Repeat(_, _)
Repeat(l, n) == IF n = 0 THEN <<>> ELSE <<l>> \o Repeat(l, n - 1)

\* a file with n occurrences of the smell a fixer handles
flagged_body(fx, n) ==
    IF n = 0 THEN <<>>
    ELSE CASE fx = "error-wrap"     -> Repeat(W_ret, n)
           [] fx = "error-strings"  -> Repeat(S_cap, n)
           [] fx = "regex-hoist"    -> <<R_for>> \o Repeat(R_re, n) \o <<R_close>>
           [] fx = "string-builder" -> <<B_for>> \o Repeat(B_cat, n) \o <<B_close>>
           [] fx = "mutex-pointer"  -> Repeat(M_val, n)

\* lines 349-358 of detect_smells: the count field of the entry of one smell
\* id, 0 when the smell has no entry
count_field(id, dsk) == Len(smell_matches(id, dsk, {}, FileOrder))

\* the sum of the count fields of the smell entries a fixer flattens
counted_by(fx, dsk) ==
    LET ids == fixer_smells(fx)
    IN  count_field(ids[1], dsk) + (IF Len(ids) = 1 THEN 0 ELSE count_field(ids[2], dsk))

\* detect_<fixer>(path) on the project
DetectStep ==
    /\ cfixer # ""
    /\ flat = None
    /\ flat' = detect_entries(cfixer, cdisk, {})
    /\ counted' = counted_by(cfixer, cdisk)
    /\ UNCHANGED <<cfixer, cdisk>>
    /\ UNCHANGED <<corevars, declvars, panicvars, cfgvars, cachevars, tailvars>>

InitCount ==
    /\ cfixer \in Fixers
    /\ \E n \in 0..MaxOccurrences, m \in 0..1 :
          cdisk = [f \in Files |-> IF f = "a.go" THEN flagged_body(cfixer, n)
                                   ELSE flagged_body(cfixer, m)]
    /\ counted = 0
    /\ flat = None
    /\ InitFixIdle /\ InitDepsIdle /\ InitParamsIdle /\ InitExtIdle /\ InitUnusedIdle
    /\ InitDeclIdle /\ InitPanicIdle /\ InitCfgIdle /\ InitCacheIdle /\ InitTailIdle

SpecCount == InitCount /\ [][DetectStep]_vars

\* C28: the detect step of a fixer returns one entry for every occurrence the
\* smell detector counted for the fixer's check ids: the number of entries is
\* the sum of the count fields of those smell entries
C28_OneEntryPerOccurrence ==
    flat # None => Len(flat) = counted

(* ---------------- cmd_detect, called again in one process -------------- *)

\* the files under the path, each as the parts of its relative path
DetectFiles == {<<"main.go">>, <<"cmd", "main.go">>, <<"internal", "b.go">>, <<"pkg", "c.go">>}

\* the patterns --exclude can name
ExcludePatterns == {"cmd", "internal", "pkg"}

\* utils.matches_exclusion: the pattern is one of the parts of the path
matches_exclusion(filepath, ex) == ex \in Range(filepath)

\* the files no pattern of exs matches
not_excluded(fs, exs) ==
    {f \in fs : ~(\E ex \in exs : matches_exclusion(f, ex))}

\* utils._find_source_files_cached: the walk leaves out what the process-wide
\* patterns match, and its result is kept until cache_clear()
find_source_files_cached(cache, tr, extra) ==
    IF cache.filled THEN cache
    ELSE [filled |-> TRUE, files |-> not_excluded(tr, extra)]

\* cmd_detect(args) for the detector "unused" of the Go configuration, on a
\* machine without the go binary: lines 11-16 set the process-wide patterns
\* and clear the cache only when args.exclude is non-empty, then the
\* detector lists the files and _detect_unused_regex skips those that the
\* process-wide patterns match
CmdDetect(ex) ==
    LET extra == IF ex # {} THEN ex ELSE extra_exclusions
        cache == IF ex # {} THEN [filled |-> FALSE] ELSE source_cache
        found == find_source_files_cached(cache, dtree, extra)
    IN  /\ dtree # {}
        /\ exclude' = ex
        /\ extra_exclusions' = extra
        /\ source_cache' = found
        /\ scanned' = not_excluded(found.files, extra)
        /\ invoked' = TRUE
        /\ UNCHANGED dtree
        /\ UNCHANGED <<corevars, declvars, panicvars, cfgvars, cachevars, countvars, smvars>>

NextDetect == \E ex \in SUBSET ExcludePatterns : CmdDetect(ex)

InitDetect ==
    /\ dtree \in (SUBSET DetectFiles) \ {{}}
    /\ extra_exclusions = {}
    /\ source_cache = [filled |-> FALSE]
    /\ invoked = FALSE
    /\ exclude = {}
    /\ scanned = {}
    /\ InitFixIdle /\ InitDepsIdle /\ InitParamsIdle /\ InitExtIdle /\ InitUnusedIdle
    /\ InitDeclIdle /\ InitPanicIdle /\ InitCfgIdle /\ InitCacheIdle /\ InitCountIdle
    /\ InitSmellsIdle

SpecDetect == InitDetect /\ [][NextDetect]_vars

\* C29: every cmd_detect of a process reads exactly the files that the
\* exclusions given to that invocation leave: what an earlier invocation
\* excluded or cached has no effect on an invocation without --exclude
C29_ExclusionsOfThisInvocation ==
    invoked => scanned = not_excluded(dtree, exclude)

(* --------------- detect_smells, one loop iteration at a time ----------- *)

\* a backslash that is not part of the pair Esc
Bsl == "\\"

\* the lines of the files: for statements with and without an opening
\* brace and with a body on the same line, closing braces, backticks that open or close a raw string, and
\* double-quoted strings with a backslash before the closing quote
SL_for      == <<"for", "x", "{">>
SL_for_bare == <<"for", "x">>
SL_for_line == <<"for", "x", "{", "}">>
SL_close    == <<"}">>
SL_bq       == <<"x", BQ>>
SL_raw_pair == <<BQ, "for", BQ, "}">>
SL_dq_bsl   == <<DQ, Bsl, DQ>>
SL_dq_esc   == <<DQ, Esc, "x">>
SL_comment  == <<DQ, "{", DQ, "//", BQ>>

SmellLines == {SL_for, SL_for_bare, SL_for_line, SL_close, SL_bq, SL_raw_pair, SL_dq_bsl, SL_dq_esc,
               SL_comment}

\* the lines one file holds at most, and the files of a project
MaxSmellLines == 3
MaxSmellFiles == 2

SmellFiles(n) == UNION {[1..k -> SmellLines] : k \in 0..n}

\* one file of up to MaxSmellLines lines, or several files of one line
SmellProjects ==
    {<<file>> : file \in SmellFiles(MaxSmellLines)}
    \cup UNION {[1..k -> SmellFiles(1)] : k \in 0..MaxSmellFiles}

\* the lines of the file the loops are in
sm_lines == sm_files[sm_f]

pin_line_scan == UNCHANGED <<sm_match_start, sm_in_string>>
pin_brace_scan == UNCHANGED <<sm_j, sm_depth, sm_found_open>>
pin_others ==
    UNCHANGED <<corevars, declvars, panicvars, cfgvars, cachevars, countvars, detvars>>

\* for filepath in files (line 301): the next file, or the end of the loop
SmellsNextFile ==
    /\ sm_pc = "file"
    /\ IF sm_f >= Len(sm_files)
       THEN /\ sm_pc' = "done"
            /\ UNCHANGED <<sm_f, sm_i, sm_in_raw, sm_string_lines>>
       ELSE /\ sm_f' = sm_f + 1
            /\ sm_pc' = "string_lines"
            /\ sm_i' = 1
            /\ sm_in_raw' = FALSE
            /\ sm_string_lines' = {}
    /\ UNCHANGED <<sm_files, sm_pos>>
    /\ pin_line_scan /\ pin_brace_scan /\ pin_others

\* _build_string_line_set, one iteration of the for loop over the lines up
\* to the inner while (lines 91-98)
StringLinesLine ==
    /\ sm_pc = "string_lines"
    /\ IF sm_i > Len(sm_lines)
       THEN /\ sm_pc' = "checks"
            /\ sm_i' = 1
            /\ UNCHANGED <<sm_pos, sm_in_raw, sm_string_lines>>
       ELSE IF sm_in_raw
       THEN /\ sm_string_lines' = sm_string_lines \cup {sm_i}
            /\ sm_in_raw' = (BQ \notin Range(sm_lines[sm_i]))
            /\ sm_i' = sm_i + 1
            /\ UNCHANGED <<sm_pc, sm_pos>>
       ELSE /\ sm_pos' = 1
            /\ sm_pc' = "scan"
            /\ UNCHANGED <<sm_i, sm_in_raw, sm_string_lines>>
    /\ UNCHANGED <<sm_files, sm_f>>
    /\ pin_line_scan /\ pin_brace_scan /\ pin_others

\* _build_string_line_set, one iteration of while pos < len(line)
\* (lines 99-127)
StringLinesScan ==
    LET line == sm_lines[sm_i]
        closes == {k \in (sm_pos + 1)..Len(line) : line[k] = BQ}
        next_line == /\ sm_pc' = "string_lines"
                     /\ sm_i' = sm_i + 1
                     /\ UNCHANGED sm_pos
    IN  /\ sm_pc = "scan"
        /\ IF sm_pos > Len(line) THEN next_line /\ UNCHANGED sm_in_raw
           ELSE IF line[sm_pos] = DQ
           THEN /\ sm_pos' = sm_pos + 1
                /\ sm_pc' = "skip_string"
                /\ UNCHANGED <<sm_i, sm_in_raw>>
           ELSE IF line[sm_pos] = "//" THEN next_line /\ UNCHANGED sm_in_raw
           ELSE IF line[sm_pos] = BQ /\ closes = {}
           THEN next_line /\ sm_in_raw' = TRUE
           ELSE /\ sm_pos' = IF line[sm_pos] = BQ THEN Min(closes) + 1 ELSE sm_pos + 1
                /\ UNCHANGED <<sm_pc, sm_i, sm_in_raw>>
        /\ UNCHANGED <<sm_files, sm_f, sm_string_lines>>
        /\ pin_line_scan /\ pin_brace_scan /\ pin_others

\* _build_string_line_set, one iteration of the while that skips a
\* double-quoted string (lines 104-111)
StringLinesSkip ==
    LET line == sm_lines[sm_i]
    IN  /\ sm_pc = "skip_string"
        /\ IF sm_pos > Len(line)
           THEN sm_pc' = "scan" /\ UNCHANGED sm_pos
           ELSE IF line[sm_pos] = Bsl
           THEN sm_pos' = sm_pos + 2 /\ UNCHANGED sm_pc
           ELSE IF line[sm_pos] = DQ
           THEN sm_pos' = sm_pos + 1 /\ sm_pc' = "scan"
           ELSE sm_pos' = sm_pos + 1 /\ UNCHANGED sm_pc
        /\ UNCHANGED <<sm_files, sm_f, sm_i, sm_in_raw, sm_string_lines>>
        /\ pin_line_scan /\ pin_brace_scan /\ pin_others

\* detect_smells, one iteration of for i, line in enumerate(lines) of a
\* check (lines 324-329): the line is skipped, the pattern does not match,
\* or it matches at a position of the line and _match_is_in_string is called
ChecksLine ==
    /\ sm_pc = "checks"
    /\ IF sm_i > Len(sm_lines)
       THEN /\ sm_pc' = "loops"
            /\ sm_i' = 1
            /\ UNCHANGED <<sm_pos, sm_match_start, sm_in_string>>
       ELSE \/ /\ sm_i' = sm_i + 1
               /\ UNCHANGED <<sm_pc, sm_pos, sm_match_start, sm_in_string>>
            \/ /\ sm_i \notin sm_string_lines
               /\ \E m \in 1..Len(sm_lines[sm_i]) : sm_match_start' = m
               /\ sm_pos' = 1
               /\ sm_in_string' = "none"
               /\ sm_pc' = "in_string"
               /\ UNCHANGED sm_i
    /\ UNCHANGED <<sm_files, sm_f, sm_in_raw, sm_string_lines>>
    /\ pin_brace_scan /\ pin_others

\* _match_is_in_string, one iteration of while i < len(line) (lines 137-169)
MatchIsInString ==
    LET line == sm_lines[sm_i]
        ch == line[sm_pos]
        return == /\ sm_pc' = "checks"
                  /\ sm_i' = sm_i + 1
                  /\ UNCHANGED <<sm_pos, sm_in_string>>
        advance(n, quote) == /\ sm_pos' = sm_pos + n
                             /\ sm_in_string' = quote
                             /\ UNCHANGED <<sm_pc, sm_i>>
    IN  /\ sm_pc = "in_string"
        /\ IF sm_pos > Len(line) \/ sm_pos = sm_match_start THEN return
           ELSE IF sm_in_string = "none"
           THEN IF ch = "//" THEN return
                ELSE IF ch \in {DQ, BQ} THEN advance(1, ch)
                ELSE advance(1, "none")
           ELSE IF sm_in_string = DQ
           THEN IF ch = Bsl /\ sm_pos < Len(line) THEN advance(2, DQ)
                ELSE IF ch = DQ THEN advance(1, "none")
                ELSE advance(1, DQ)
           ELSE IF ch = BQ THEN advance(1, "none")
           ELSE advance(1, BQ)
        /\ UNCHANGED <<sm_files, sm_f, sm_in_raw, sm_string_lines, sm_match_start>>
        /\ pin_brace_scan /\ pin_others

\* _detect_loop_smells, one iteration of while i < len(lines) up to the
\* inner while (lines 232-247); after the last line the file is done
LoopSmellsLine ==
    /\ sm_pc = "loops"
    /\ IF sm_i > Len(sm_lines)
       THEN /\ sm_pc' = "file"
            /\ UNCHANGED <<sm_i, sm_j, sm_depth, sm_found_open>>
       ELSE IF sm_i \in sm_string_lines \/ ~for_re_match(sm_lines[sm_i])
       THEN /\ sm_i' = sm_i + 1
            /\ UNCHANGED <<sm_pc, sm_j, sm_depth, sm_found_open>>
       ELSE /\ sm_j' = sm_i
            /\ sm_depth' = 0
            /\ sm_found_open' = FALSE
            /\ sm_pc' = "braces"
            /\ UNCHANGED sm_i
    /\ UNCHANGED <<sm_files, sm_f, sm_pos, sm_in_raw, sm_string_lines>>
    /\ pin_line_scan /\ pin_others

\* _detect_loop_smells, one iteration of while j < len(lines) (lines
\* 249-261); when the loop ends, the body is scanned and i = loop_end + 1
\* (lines 263-290)
LoopSmellsBraces_stay ==
    LET line == sm_lines[sm_j]
        d == sm_depth + Count(line, "{") - Count(line, "}")
        fo == sm_found_open \/ Count(line, "{") > 0
        leave(loop_end) == /\ sm_i' = loop_end
                           /\ sm_pc' = "loops"
                           /\ UNCHANGED <<sm_j, sm_depth, sm_found_open>>
    IN  /\ sm_pc = "braces"
        /\ IF sm_j > Len(sm_lines) THEN leave(sm_j)
           ELSE IF sm_j \in sm_string_lines
           THEN /\ sm_j' = sm_j + 1
                /\ UNCHANGED <<sm_pc, sm_i, sm_depth, sm_found_open>>
           ELSE IF fo /\ d <= 0 THEN leave(sm_j)
           ELSE /\ sm_j' = sm_j + 1
                /\ sm_depth' = d
                /\ sm_found_open' = fo
                /\ UNCHANGED <<sm_pc, sm_i>>
        /\ UNCHANGED <<sm_files, sm_f, sm_pos, sm_in_raw, sm_string_lines>>
        /\ pin_line_scan /\ pin_others

LoopSmellsBraces ==
    LET line == sm_lines[sm_j]
        d == sm_depth + Count(line, "{") - Count(line, "}")
        fo == sm_found_open \/ Count(line, "{") > 0
        leave(loop_end) == /\ sm_i' = loop_end + 1
                           /\ sm_pc' = "loops"
                           /\ UNCHANGED <<sm_j, sm_depth, sm_found_open>>
    IN  /\ sm_pc = "braces"
        /\ IF sm_j > Len(sm_lines) THEN leave(sm_j)
           ELSE IF sm_j \in sm_string_lines
           THEN /\ sm_j' = sm_j + 1
                /\ UNCHANGED <<sm_pc, sm_i, sm_depth, sm_found_open>>
           ELSE IF fo /\ d <= 0 THEN leave(sm_j)
           ELSE /\ sm_j' = sm_j + 1
                /\ sm_depth' = d
                /\ sm_found_open' = fo
                /\ UNCHANGED <<sm_pc, sm_i>>
        /\ UNCHANGED <<sm_files, sm_f, sm_pos, sm_in_raw, sm_string_lines>>
        /\ pin_line_scan /\ pin_others

NextSmells ==
    \/ SmellsNextFile
    \/ StringLinesLine
    \/ StringLinesScan
    \/ StringLinesSkip
    \/ ChecksLine
    \/ MatchIsInString
    \/ LoopSmellsLine
    \/ LoopSmellsBraces

InitSmells ==
    /\ sm_files \in SmellProjects
    /\ sm_f = 0
    /\ sm_pc = "file"
    /\ sm_i = 0
    /\ sm_pos = 0
    /\ sm_in_raw = FALSE
    /\ sm_string_lines = {}
    /\ sm_match_start = 0
    /\ sm_in_string = "none"
    /\ sm_j = 0
    /\ sm_depth = 0
    /\ sm_found_open = FALSE
    /\ InitFixIdle /\ InitDepsIdle /\ InitParamsIdle /\ InitExtIdle /\ InitUnusedIdle
    /\ InitDeclIdle /\ InitPanicIdle /\ InitCfgIdle /\ InitCacheIdle /\ InitCountIdle
    /\ InitDetectIdle

\* detect_smells is one synchronous call: a loop iteration that can run, runs
SpecSmells == InitSmells /\ [][NextSmells]_vars /\ WF_vars(NextSmells)

\* every iteration of a scanner moves its position forward
StrictlyAdvances ==
    /\ (sm_pc \in {"scan", "skip_string"} /\ sm_pc' \in {"scan", "skip_string"})
           => (sm_pos' > sm_pos \/ (sm_pc = "skip_string" /\ sm_pc' = "scan"))
    /\ (sm_pc \in {"string_lines", "scan"} /\ sm_pc' = "string_lines") => sm_i' > sm_i
    /\ (sm_pc = "in_string" /\ sm_pc' = "in_string") => sm_pos' > sm_pos
    /\ (sm_pc \in {"checks", "in_string"} /\ sm_pc' = "checks") => sm_i' > sm_i
    /\ (sm_pc = "braces" /\ sm_pc' = "braces") => sm_j' > sm_j
    /\ (sm_pc \in {"loops", "braces"} /\ sm_pc' = "loops") => sm_i' > sm_i
    /\ (sm_pc = "file" /\ sm_pc' # "done") => sm_f' > sm_f

\* C30: detect_smells terminates on every set of files: every iteration of
\* the raw-string line scanner, of the in-string position check and of the
\* loop-body scanner moves its position forward, and the call reaches its
\* end, also when a raw string is never closed, when the braces of a for
\* statement never balance and when a for statement has no opening brace
C30_ScannersAdvanceAndTerminate ==
    [][StrictlyAdvances]_vars /\ <>(sm_pc = "done")

\* a finished call on a file whose raw string is never closed and whose for
\* statement has no opening brace, so that its braces never balance
C30_Witness ==
    /\ sm_pc = "done"
    /\ \E f \in DOMAIN sm_files :
          LET lines == sm_files[f]
              strs == build_string_line_set(lines)
          IN  /\ lines # <<>>
              /\ Len(lines) \in strs
              /\ BQ \notin Range(lines[Len(lines)])
              /\ \E i \in DOMAIN lines :
                    /\ i \notin strs
                    /\ for_re_match(lines[i])
                    /\ Count(lines[i], "{") = 0
                    /\ find_loop_end(lines, strs, i, 0, FALSE) = Len(lines) + 1

=============================================================================
